---- MODULE Spec2Model ----
(***************************************************************************)
(* CoreProver escrow engine (crates/coreprover-service/src/engine.rs and   *)
(* types.rs): the per-order escrow state machine, the two-phase receipt    *)
(* builder and the engine-owned triple clock, as a state machine whose     *)
(* actions are the engine's public operations; the TGP session state       *)
(* machine (crates/tbc-core/src/tgp/state.rs); and the TxIP session        *)
(* registry with its HTTP handler (crates/txip).                           *)
(***************************************************************************)
EXTENDS Integers, Sequences, FiniteSets, TLC

VARIABLES escrows, receipts, next_session_counter, current_mono, current_unix,
          block_interval_secs, current_block_height, result,
          session, current_timestamp, session_result,
          sessions, message_cache, config, response, handler_path,
          tasks, lock_holder

vars == <<escrows, receipts, next_session_counter, current_mono, current_unix,
          block_interval_secs, current_block_height, result,
          session, current_timestamp, session_result,
          sessions, message_cache, config, response, handler_path,
          tasks, lock_holder>>

engine_vars == <<escrows, receipts, next_session_counter, current_mono, current_unix,
                 block_interval_secs, current_block_height>>

\* a TGPSession, the system clock it reads and what the last call on it returned
tgp_vars == <<session, current_timestamp, session_result>>

\* the SessionManager, and the response and return point of the handler's last call
txip_vars == <<sessions, message_cache, config, response, handler_path>>

\* the handler tasks in flight and the holder of each RwLock of the SessionManager
task_vars == <<tasks, lock_holder>>

(***************************************************************************)
(* Bounds of the model.                                                    *)
(***************************************************************************)
MaxEscrows == 1
MaxMono == 1
MaxTimestamp == 31
MaxClock == 3
MaxIssued == 64
\* one receipt more than there are orders, so that an order can get a second one
MaxReceipts == MaxEscrows + 1

(***************************************************************************)
(* Constructor arguments (the harness defaults).                           *)
(***************************************************************************)
ChainId == 1
BlockIntervalSecs == 12
GenesisUnix == 1700000000

(***************************************************************************)
(* Option<T>: None is the empty sequence, Some(x) the one-element one.     *)
(***************************************************************************)
None == <<>>
Some(x) == <<x>>
IsSome(o) == Len(o) > 0
UnwrapOr(o, d) == IF Len(o) > 0 THEN o[1] ELSE d

(***************************************************************************)
(* Result<T, String>.                                                      *)
(***************************************************************************)
OkUnit == <<"Ok", "unit">>
OkAmount(a) == <<"Ok", "amount", a>>
OkOrderId(id) == <<"Ok", "order_id", id>>
Err(msg) == <<"Err", msg>>
IsOk(r) == r[1] = "Ok"
IsErr(r) == r[1] = "Err"

(***************************************************************************)
(* u64 arithmetic.  The engine's counters are u64; the model holds them in *)
(* 31 bits, the widest the checker's integers carry.  `+` on u64 panics on *)
(* overflow in a build with overflow checks (debug) and wraps in a build   *)
(* without (release); `/` panics on a zero divisor in both.                *)
(***************************************************************************)
U64Max == 2147483647

AddOverflows(a, b) == a > U64Max - b

\* u64::wrapping_add, what `+` is without overflow checks
WrappingAdd(a, b) == IF AddOverflows(a, b) THEN a - (U64Max - b) - 1 ELSE a + b

\* the builds of the crate: with and without overflow checks
OverflowChecks == BOOLEAN

\* a panic unwinding out of the call
Panic(msg) == <<"Panic", msg>>
IsPanic(r) == r[1] = "Panic"

PanicAddOverflow == Panic("attempt to add with overflow")
PanicDivideByZero == Panic("attempt to divide by zero")

(***************************************************************************)
(* EscrowState (types.rs).                                                 *)
(***************************************************************************)
EscrowStates == {"BuyerCommitted", "SellerAccepted", "SellerFulfilled",
                 "FulfillmentExpired", "SellerClaimed", "SellerRefunded",
                 "BuyerWithdrawn"}

is_terminal(s) == s \in {"SellerClaimed", "SellerRefunded", "BuyerWithdrawn"}

can_fulfill(s) == s \in {"SellerAccepted", "FulfillmentExpired"}

(***************************************************************************)
(* iso8601: the RFC 3339 rendering of a unix timestamp in UTC, computed    *)
(* from the civil calendar as chrono does.                                 *)
(***************************************************************************)
Pad2(n) == IF n < 10 THEN "0" \o ToString(n) ELSE ToString(n)

Pad4(n) == IF n < 10 THEN "000" \o ToString(n)
           ELSE IF n < 100 THEN "00" \o ToString(n)
           ELSE IF n < 1000 THEN "0" \o ToString(n)
           ELSE ToString(n)

CivilFromDays(days) ==
    LET z == days + 719468
        era == z \div 146097
        doe == z % 146097
        yoe == (doe - (doe \div 1460) + (doe \div 36524) - (doe \div 146096)) \div 365
        doy == doe - (365 * yoe + (yoe \div 4) - (yoe \div 100))
        mp == (5 * doy + 2) \div 153
        d == doy - ((153 * mp + 2) \div 5) + 1
        m == IF mp < 10 THEN mp + 3 ELSE mp - 9
        y == yoe + era * 400 + (IF m <= 2 THEN 1 ELSE 0)
    IN  [year |-> y, month |-> m, day |-> d]

iso8601(unix) ==
    LET date == CivilFromDays(unix \div 86400)
        sod == unix % 86400
    IN  Pad4(date.year) \o "-" \o Pad2(date.month) \o "-" \o Pad2(date.day) \o "T"
        \o Pad2(sod \div 3600) \o ":" \o Pad2((sod % 3600) \div 60) \o ":"
        \o Pad2(sod % 60) \o "+00:00"

(***************************************************************************)
(* TimeTruth::new and CoreProverEngine::now.                               *)
(***************************************************************************)
TimeTruth(mono, unix) == [mono |-> mono, unix |-> unix, iso |-> iso8601(unix)]

now == TimeTruth(current_mono, current_unix)

(***************************************************************************)
(* Inputs of the operations.                                               *)
(***************************************************************************)
\* str::trim on the txid strings the callers pass
Trim(s) == IF s = " " THEN "" ELSE s

IsBlank(s) == Trim(s) = ""

CommitTxids == {"", "0xaa"}
AcceptTxids == {" ", "0xbb"}
FulfillTxids == {"", "0xcc"}
ClaimTxids == {"", "0xdd"}
RefundTxids == {" ", "0xee"}
WithdrawTxids == {None, Some("0xff")}
AdvanceSecs == {1, 2}
Amounts == {25}
BuyerChainIds == {137}

\* a profile whose acceptance and fulfillment windows close at once and whose claim
\* window lasts one second, and one with the opposite windows and no timed release
Profiles ==
    { [timing |-> [acceptance_window_secs |-> 0,
                   fulfillment_window_secs |-> 0,
                   claim_window_secs |-> 1],
       allows_timed_release |-> TRUE,
       enables_late_discount |-> TRUE,
       late_discount_pct |-> 10,
       discount_expiration_days |-> 90],
      [timing |-> [acceptance_window_secs |-> 1,
                   fulfillment_window_secs |-> 1,
                   claim_window_secs |-> 0],
       allows_timed_release |-> FALSE,
       enables_late_discount |-> FALSE,
       late_discount_pct |-> 10,
       discount_expiration_days |-> 90] }

\* generate_order_id: bytes 0 and 1 of the id are the low 16 bits of the counter
OrderIdOf(counter) == <<counter % 256, (counter \div 256) % 256>>

OrderIdInputs == {OrderIdOf(c) : c \in 1..(MaxEscrows + 1)}

(***************************************************************************)
(* Escrow::new (types.rs).                                                 *)
(***************************************************************************)
EscrowNew(order_id, buyer, seller, amount, profile, buyer_chain_id, buyer_commit_txid, mono) ==
    [order_id |-> order_id,
     buyer |-> buyer,
     seller |-> seller,
     amount |-> amount,
     profile |-> profile,
     state |-> "BuyerCommitted",
     buyer_commit_mono |-> mono,
     seller_accept_mono |-> None,
     fulfillment_mono |-> None,
     settlement_mono |-> None,
     acceptance_deadline_mono |->
         WrappingAdd(mono, profile.timing.acceptance_window_secs),
     fulfillment_deadline_mono |-> None,
     buyer_chain_id |-> buyer_chain_id,
     buyer_commit_txid |-> buyer_commit_txid,
     seller_chain_id |-> 0,
     seller_accept_txid |-> None,
     seller_fulfill_txid |-> None,
     seller_claim_txid |-> None,
     seller_refund_txid |-> None,
     buyer_withdraw_txid |-> None,
     seller_block_height |-> None]

(***************************************************************************)
(* get_escrow / get_escrow_mut: the first escrow with the order id, 0 when *)
(* there is none.                                                          *)
(***************************************************************************)
get_escrow(order_id) ==
    IF \E i \in 1..Len(escrows) : escrows[i].order_id = order_id
    THEN CHOOSE i \in 1..Len(escrows) :
            /\ escrows[i].order_id = order_id
            /\ \A j \in 1..(i - 1) : escrows[j].order_id # order_id
    ELSE 0

ErrNotFound == "Escrow not found"

(***************************************************************************)
(* TGP session state machine (tbc-core/src/tgp/state.rs).                  *)
(***************************************************************************)
\* what a function returning () returns
Unit == <<"unit">>

\* no call has been made on the session yet
NoCall == <<"none">>

\* TGPStateError
InvalidTransition(from, to) == <<"Err", "InvalidTransition", from, to>>
SessionTimeout(at) == <<"Err", "SessionTimeout", at>>
TerminalState(s) == <<"Err", "TerminalState", s>>
AlreadyInState(s) == <<"Err", "AlreadyInState", s>>

TGPStates == {"Idle", "QuerySent", "OfferReceived", "AcceptSent", "Finalizing",
              "Settled", "Errored"}

\* TGPState::is_terminal that does not count Settled
TGPState_is_terminal_OnlyErrored(s) == s = "Errored"

\* TGPState::is_terminal
TGPState_is_terminal(s) == s \in {"Settled", "Errored"}

\* TGPState::can_transition_to that has no arm for an error out of Idle
can_transition_to_NoErrorFromIdle(s, target) ==
    IF TGPState_is_terminal(s) THEN FALSE
    ELSE \/ <<s, target>> \in { <<"Idle", "QuerySent">>,
                                <<"QuerySent", "OfferReceived">>,
                                <<"OfferReceived", "AcceptSent">>,
                                <<"AcceptSent", "Finalizing">>,
                                <<"Finalizing", "Settled">> }
         \/ (s # "Idle" /\ target = "Errored")

\* TGPState::can_transition_to: the arms of the match, the last one being (_, Errored)
can_transition_to(s, target) ==
    IF TGPState_is_terminal(s) THEN FALSE
    ELSE \/ <<s, target>> \in { <<"Idle", "QuerySent">>,
                                <<"QuerySent", "OfferReceived">>,
                                <<"QuerySent", "Errored">>,
                                <<"OfferReceived", "AcceptSent">>,
                                <<"OfferReceived", "Errored">>,
                                <<"AcceptSent", "Finalizing">>,
                                <<"AcceptSent", "Errored">>,
                                <<"Finalizing", "Settled">>,
                                <<"Finalizing", "Errored">> }
         \/ target = "Errored"

\* TGPState::timeout_seconds with no timeout for AcceptSent
timeout_seconds_AcceptSentUnbounded(s) ==
    CASE s = "QuerySent" -> Some(30)
      [] s = "OfferReceived" -> Some(300)
      [] s = "Finalizing" -> Some(600)
      [] OTHER -> None

\* TGPState::timeout_seconds
timeout_seconds(s) ==
    CASE s = "QuerySent" -> Some(30)
      [] s = "OfferReceived" -> Some(300)
      [] s = "Finalizing" -> Some(600)
      [] s = "Idle" -> None
      [] s = "AcceptSent" -> Some(60)
      [] s = "Settled" -> None
      [] s = "Errored" -> None

\* TGPSession::new at the system time `at`
TGPSessionNew(session_id, at) ==
    [session_id |-> session_id,
     state |-> "Idle",
     query_id |-> None,
     offer_id |-> None,
     created_at |-> at,
     updated_at |-> at,
     timeout_at |-> None]

\* the inputs of the session operations
SessionIds == {"sess-1"}
TimeoutSecs == {0, 1}
TickSecs == {1, 30}

\* TGPSession::is_timed_out that never reports a timeout
is_timed_out_Never == FALSE

\* TGPSession::is_timed_out
is_timed_out ==
    IF IsSome(session.timeout_at)
    THEN current_timestamp > session.timeout_at[1]
    ELSE FALSE

\* TGPSession::transition that stamps updated_at before it validates the target
transition_StampsBeforeValidating(new_state) ==
    /\ IF is_timed_out
       THEN /\ session_result' = SessionTimeout(UnwrapOr(session.timeout_at, 0))
            /\ session' = session
       ELSE IF session.state = new_state
       THEN /\ session_result' = AlreadyInState(new_state)
            /\ session' = session
       ELSE IF TGPState_is_terminal(session.state)
       THEN /\ session_result' = TerminalState(session.state)
            /\ session' = session
       ELSE IF ~can_transition_to(session.state, new_state)
       THEN /\ session_result' = InvalidTransition(session.state, new_state)
            /\ session' = [session EXCEPT !.updated_at = current_timestamp]
       ELSE /\ session' =
                  [session EXCEPT
                      !.state = new_state,
                      !.updated_at = current_timestamp,
                      !.timeout_at =
                          IF IsSome(timeout_seconds(new_state))
                          THEN Some(current_timestamp + timeout_seconds(new_state)[1])
                          ELSE None]
            /\ session_result' = OkUnit
    /\ UNCHANGED current_timestamp

\* TGPSession::transition
transition(new_state) ==
    /\ IF is_timed_out
       THEN /\ session_result' = SessionTimeout(UnwrapOr(session.timeout_at, 0))
            /\ session' = session
       ELSE IF session.state = new_state
       THEN /\ session_result' = AlreadyInState(new_state)
            /\ session' = session
       ELSE IF TGPState_is_terminal(session.state)
       THEN /\ session_result' = TerminalState(session.state)
            /\ session' = session
       ELSE IF ~can_transition_to(session.state, new_state)
       THEN /\ session_result' = InvalidTransition(session.state, new_state)
            /\ session' = session
       ELSE /\ session' =
                  [session EXCEPT
                      !.state = new_state,
                      !.updated_at = current_timestamp,
                      !.timeout_at =
                          IF IsSome(timeout_seconds(new_state))
                          THEN Some(current_timestamp + timeout_seconds(new_state)[1])
                          ELSE None]
            /\ session_result' = OkUnit
    /\ UNCHANGED current_timestamp

\* TGPSession::set_timeout
set_timeout(seconds) ==
    /\ session' = [session EXCEPT !.timeout_at = Some(current_timestamp + seconds)]
    /\ session_result' = Unit
    /\ UNCHANGED current_timestamp

\* TGPSession::clear_timeout
clear_timeout ==
    /\ session' = [session EXCEPT !.timeout_at = None]
    /\ session_result' = Unit
    /\ UNCHANGED current_timestamp

\* TGPSession::force_error that leaves the timeout deadline in place
force_error_KeepsTimeout ==
    /\ session' = [session EXCEPT !.state = "Errored",
                                  !.updated_at = current_timestamp]
    /\ session_result' = Unit
    /\ UNCHANGED current_timestamp

\* TGPSession::force_error
force_error ==
    /\ session' = [session EXCEPT !.state = "Errored",
                                  !.updated_at = current_timestamp,
                                  !.timeout_at = None]
    /\ session_result' = Unit
    /\ UNCHANGED current_timestamp

\* the system clock read by current_timestamp() moves on
Tick(secs) ==
    /\ current_timestamp + secs <= MaxTimestamp
    /\ current_timestamp' = current_timestamp + secs
    /\ UNCHANGED <<session, session_result>>

(***************************************************************************)
(* TxIP envelopes (txip/txip_types_v03.rs, txip/timestamp_types_v03.rs).   *)
(***************************************************************************)
TXIP_VERSION == "0.2"

\* a string as the sequence of its characters
Contains(chars, c) == \E k \in 1..Len(chars) : chars[k] = c
EndsWith(chars, c) == Len(chars) > 0 /\ chars[Len(chars)] = c

\* TripleTimestamp::validate_iso
validate_iso(iso) ==
    IF ~Contains(iso, "T")
    THEN Err("ISO timestamp must contain 'T' separator")
    ELSE IF ~EndsWith(iso, "Z") /\ ~Contains(iso, "+") /\ ~Contains(iso, "-")
    THEN Err("ISO timestamp must have timezone (Z or +/-)")
    ELSE OkUnit

\* the variant of the payload an envelope carries
PayloadVariant(payload) == payload.variant

\* TxipEnvelope::validate that lets an envelope of any protocol version through
validate_AnyVersion(envelope) ==
    IF envelope.msg_id = ""
    THEN Err("msg_id cannot be empty")
    ELSE IF envelope.session_id = ""
    THEN Err("session_id cannot be empty")
    ELSE IF IsErr(validate_iso(envelope.timestamp_iso))
    THEN validate_iso(envelope.timestamp_iso)
    ELSE IF envelope.message_type = PayloadVariant(envelope.payload)
    THEN OkUnit
    ELSE Err("message_type does not match payload")

\* TxipEnvelope::validate
validate(envelope) ==
    IF envelope.txip_version # TXIP_VERSION
    THEN Err("Unsupported TxIP version: " \o envelope.txip_version)
    ELSE IF envelope.msg_id = ""
    THEN Err("msg_id cannot be empty")
    ELSE IF envelope.session_id = ""
    THEN Err("session_id cannot be empty")
    ELSE IF IsErr(validate_iso(envelope.timestamp_iso))
    THEN validate_iso(envelope.timestamp_iso)
    ELSE IF envelope.message_type = PayloadVariant(envelope.payload)
    THEN OkUnit
    ELSE Err("message_type does not match payload")

\* the envelopes clients send
Features == [zk_discount_proofs |-> TRUE, receipt_ownership_proofs |-> TRUE,
             late_discount_support |-> TRUE, cross_chain_support |-> TRUE]

HelloPayloads ==
    { [agent_id |-> "buyer://alice",
       supported_tgp_versions |-> versions,
       supported_chains |-> chains,
       features |-> Features] :
          versions \in {<<"2.0">>, <<"1.0">>}, chains \in {<<1, 369>>, <<>>} }

Payloads ==
    { [variant |-> "Control", control_type |-> "Hello", hello |-> Some(h)] :
          h \in HelloPayloads }
    \cup { [variant |-> "Control", control_type |-> c, hello |-> None] :
              c \in {"Welcome", "Heartbeat", "Close"} }
    \cup { [variant |-> v, control_type |-> "", hello |-> None] : v \in {"Tgp", "Error"} }

MsgIds == {"msg-a", "msg-b"}
MessageTypes == {"Control", "Tgp", "Error"}

\* timestamp_iso as characters: well formed, without 'T', without a timezone
IsoWellFormed == <<"1", "T", "2", "Z">>
IsoMalformed == { <<"1", "2", "Z">>, <<"1", "T", "2">> }

WellFormedEnvelopes ==
    { [txip_version |-> TXIP_VERSION, msg_id |-> m, session_id |-> "sess-456",
       role |-> "BuyerAgent", timestamp_iso |-> IsoWellFormed,
       message_type |-> p.variant, payload |-> p] :
          m \in MsgIds, p \in Payloads }

\* the envelopes validate refuses: a well formed one with one field spoilt
MalformedEnvelopes ==
    { [e EXCEPT !.txip_version = "0.1"] : e \in WellFormedEnvelopes }
    \cup { [e EXCEPT !.msg_id = ""] : e \in WellFormedEnvelopes }
    \cup { [e EXCEPT !.session_id = ""] : e \in WellFormedEnvelopes }
    \cup { [e EXCEPT !.timestamp_iso = iso] : e \in WellFormedEnvelopes, iso \in IsoMalformed }
    \cup { [e EXCEPT !.message_type = t] : e \in WellFormedEnvelopes, t \in MessageTypes }

Envelopes == WellFormedEnvelopes \cup MalformedEnvelopes

\* generate_msg_id: a random message id
GeneratedMsgIds == {"msg-1", "msg-2"}

\* HttpHandlerState.tbc_id
TbcId == "tbc://test"

(***************************************************************************)
(* SessionManager (txip/txip_session_v03.rs): each operation as the        *)
(* registry and the message cache it leaves.                               *)
(***************************************************************************)
\* SessionConfig, with the default and with a session timeout of no seconds
SessionConfigs ==
    { [session_timeout_seconds |-> t,
       message_cache_ttl_seconds |-> 600,
       heartbeat_interval_seconds |-> 30] : t \in {300, 0} }

\* a HashMap without entries
EmptyMap == [k \in {} |-> {}]

MapInsert(map, key, value) ==
    [k \in DOMAIN map \cup {key} |-> IF k = key THEN value ELSE map[k]]

MapRemove(map, key) == [k \in DOMAIN map \ {key} |-> map[k]]

\* SessionManager::negotiate_tgp_version
negotiate_tgp_version(supported) ==
    IF Contains(supported, "2.0") THEN <<"Ok", "2.0">>
    ELSE Err("No compatible TGP version found")

\* SessionManager::negotiate_chains
negotiate_chains(supported) ==
    IF Len(supported) = 0 THEN Err("Client must support at least one chain")
    ELSE <<"Ok", supported>>

\* SessionManager::handle_hello: the Result, the registry and the cache
handle_hello(ss, mc, hello, session_id, role, ts) ==
    LET version == negotiate_tgp_version(hello.supported_tgp_versions)
        chains == negotiate_chains(hello.supported_chains)
    IN  IF IsErr(version)
        THEN [result |-> version, sessions |-> ss, message_cache |-> mc]
        ELSE IF IsErr(chains)
        THEN [result |-> chains, sessions |-> ss, message_cache |-> mc]
        ELSE LET session_info ==
                     [session_id |-> session_id,
                      agent_id |-> hello.agent_id,
                      role |-> role,
                      created_mono |-> ts.mono,
                      created_unix |-> ts.unix,
                      created_iso |-> ts.iso,
                      last_activity_mono |-> ts.mono,
                      last_activity_unix |-> ts.unix,
                      last_activity_iso |-> ts.iso,
                      negotiated_tgp_version |-> version[2],
                      negotiated_chains |-> chains[2],
                      features |-> hello.features]
             IN  [result |-> <<"Ok", session_info>>,
                  sessions |-> MapInsert(ss, session_id, session_info),
                  message_cache |-> MapInsert(mc, session_id, {})]

\* SessionManager::is_duplicate_message
is_duplicate_message(mc, session_id, msg_id) ==
    IF session_id \in DOMAIN mc THEN msg_id \in mc[session_id] ELSE FALSE

\* SessionManager::record_message that drops the message id
record_message_NotRecorded(mc, session_id, msg_id) ==
    MapInsert(mc, session_id, IF session_id \in DOMAIN mc THEN mc[session_id] ELSE {})

\* SessionManager::record_message
record_message(mc, session_id, msg_id) ==
    MapInsert(mc, session_id,
              (IF session_id \in DOMAIN mc THEN mc[session_id] ELSE {}) \cup {msg_id})

\* SessionManager::touch_session
touch_session(ss, session_id, ts) ==
    IF session_id \in DOMAIN ss
    THEN [result |-> OkUnit,
          sessions |-> [ss EXCEPT ![session_id] =
                           [@ EXCEPT !.last_activity_mono = ts.mono,
                                     !.last_activity_unix = ts.unix,
                                     !.last_activity_iso = ts.iso]]]
    ELSE [result |-> Err("Session not found: " \o session_id), sessions |-> ss]

\* SessionManager::get_session
get_session(ss, session_id) ==
    IF session_id \in DOMAIN ss THEN Some(ss[session_id]) ELSE None

\* SessionManager::close_session
close_session(ss, mc, session_id) ==
    [sessions |-> MapRemove(ss, session_id), message_cache |-> MapRemove(mc, session_id)]

\* SessionInfo::is_timed_out that expires a session at the very end of its timeout
SessionInfo_is_timed_out_AtTimeout(info, mono, timeout_secs) ==
    mono >= info.last_activity_mono + timeout_secs

\* SessionInfo::is_timed_out
SessionInfo_is_timed_out(info, mono, timeout_secs) ==
    mono > info.last_activity_mono + timeout_secs

\* SessionManager::cleanup_expired
cleanup_expired(ss, mc, ts, cfg) ==
    LET active_sessions ==
            {k \in DOMAIN ss :
                ~SessionInfo_is_timed_out(ss[k], ts.mono, cfg.session_timeout_seconds)}
    IN  [sessions |-> [k \in active_sessions |-> ss[k]],
         message_cache |-> [k \in DOMAIN mc \cap active_sessions |-> mc[k]]]

(***************************************************************************)
(* The HTTP handler (txip/txip_http_handler_v03.rs): the response, the     *)
(* registry and the cache a delivery leaves, and the return it took.       *)
(***************************************************************************)
\* accepted_response
accepted_response(msg_id) ==
    [status |-> 200, body |-> [kind |-> "accepted", status |-> "accepted", msg_id |-> msg_id]]

\* error_response: an ERROR envelope stamped with the provider's time
error_response(gen, session_id, error_code, http_status, related_msg_id, details, retryable, ts) ==
    [status |-> http_status,
     body |-> [kind |-> "error",
               msg_id |-> gen,
               session_id |-> session_id,
               timestamp |-> ts,
               error_code |-> error_code,
               http_status |-> http_status,
               related_msg_id |-> related_msg_id,
               details |-> details,
               retryable |-> retryable]]

\* the WELCOME payload of TxipEnvelope::welcome
WelcomePayload(session_id, session_info, cfg) ==
    [tbc_id |-> TbcId,
     session_id |-> session_id,
     negotiated_tgp_version |-> session_info.negotiated_tgp_version,
     negotiated_chains |-> session_info.negotiated_chains,
     negotiated_features |-> session_info.features,
     heartbeat_interval_sec |-> cfg.heartbeat_interval_seconds]

\* the WELCOME envelope handle_hello answers with
welcome_response(gen, session_id, session_info, cfg, ts) ==
    [status |-> 200,
     body |-> [kind |-> "welcome",
               msg_id |-> gen,
               session_id |-> session_id,
               timestamp |-> ts,
               payload |-> WelcomePayload(session_id, session_info, cfg)]]

\* StatusCode::OK.into_response(): 200 with no body
empty_response == [status |-> 200, body |-> [kind |-> "empty"]]

Outcome(path, r, ss, mc) ==
    [path |-> path, response |-> r, sessions |-> ss, message_cache |-> mc]

\* handle_hello of the handler
HandlerHello(ss, mc, envelope, ts, gen, cfg) ==
    LET h == handle_hello(ss, mc, envelope.payload.hello[1], envelope.session_id,
                          envelope.role, ts)
    IN  IF IsOk(h.result)
        THEN Outcome("hello",
                     welcome_response(gen, envelope.session_id, h.result[2], cfg, ts),
                     h.sessions,
                     record_message(h.message_cache, envelope.session_id, envelope.msg_id))
        ELSE Outcome("hello_failed",
                     error_response(gen, envelope.session_id, "TxipInternalError", 500,
                                    Some(envelope.msg_id),
                                    "Failed to create session: " \o h.result[2], TRUE, ts),
                     ss, mc)

\* handle_heartbeat
HandlerHeartbeat(ss, mc, envelope, ts, gen) ==
    LET t == touch_session(ss, envelope.session_id, ts)
    IN  IF IsErr(t.result)
        THEN Outcome("heartbeat_failed",
                     error_response(gen, envelope.session_id, "TxipInternalError", 500,
                                    Some(envelope.msg_id),
                                    "Failed to update session: " \o t.result[2], TRUE, ts),
                     ss, mc)
        ELSE Outcome("heartbeat", accepted_response(envelope.msg_id), t.sessions,
                     record_message(mc, envelope.session_id, envelope.msg_id))

\* handle_close
HandlerClose(ss, mc, envelope) ==
    LET c == close_session(ss, mc, envelope.session_id)
    IN  Outcome("close", empty_response, c.sessions, c.message_cache)

\* handle_control_message
handle_control_message(ss, mc, envelope, ts, gen, cfg) ==
    IF envelope.payload.variant # "Control"
    THEN Outcome("control_payload_invalid",
                 error_response(gen, envelope.session_id, "TxipInvalidEnvelope", 400,
                                Some(envelope.msg_id),
                                "Invalid payload for CONTROL message", FALSE, ts),
                 ss, mc)
    ELSE CASE envelope.payload.control_type = "Hello" ->
                  HandlerHello(ss, mc, envelope, ts, gen, cfg)
           [] envelope.payload.control_type = "Heartbeat" ->
                  HandlerHeartbeat(ss, mc, envelope, ts, gen)
           [] envelope.payload.control_type = "Close" ->
                  HandlerClose(ss, mc, envelope)
           [] envelope.payload.control_type = "Welcome" ->
                  Outcome("welcome_refused",
                          error_response(gen, envelope.session_id, "TxipInvalidEnvelope",
                                         400, Some(envelope.msg_id),
                                         "WELCOME messages are sent by TBC, not received",
                                         FALSE, ts),
                          ss, mc)

\* handle_tgp_message
handle_tgp_message(ss, mc, envelope, ts, gen) ==
    IF get_session(ss, envelope.session_id) = None
    THEN Outcome("tgp_no_session",
                 error_response(gen, envelope.session_id, "TxipUnauthenticated", 401,
                                Some(envelope.msg_id),
                                "Session not found. Send HELLO first.", FALSE, ts),
                 ss, mc)
    ELSE LET ss2 == touch_session(ss, envelope.session_id, ts).sessions
             mc2 == record_message(mc, envelope.session_id, envelope.msg_id)
         IN  IF envelope.payload.variant = "Tgp"
             THEN Outcome("tgp", accepted_response(envelope.msg_id), ss2, mc2)
             ELSE Outcome("tgp_payload_invalid",
                          error_response(gen, envelope.session_id, "TxipInvalidEnvelope",
                                         400, Some(envelope.msg_id),
                                         "Invalid payload for TGP message", FALSE, ts),
                          ss2, mc2)

\* handle_txip_message
handle_txip_message(ss, mc, envelope, ts, gen, cfg) ==
    IF IsErr(validate(envelope))
    THEN Outcome("invalid",
                 error_response(gen, envelope.session_id, "TxipInvalidEnvelope", 400,
                                Some(envelope.msg_id), validate(envelope)[2], FALSE, ts),
                 ss, mc)
    ELSE IF is_duplicate_message(mc, envelope.session_id, envelope.msg_id)
    THEN Outcome("duplicate", accepted_response(envelope.msg_id), ss, mc)
    ELSE CASE envelope.message_type = "Control" ->
                  handle_control_message(ss, mc, envelope, ts, gen, cfg)
           [] envelope.message_type = "Tgp" ->
                  handle_tgp_message(ss, mc, envelope, ts, gen)
           [] envelope.message_type = "Error" ->
                  Outcome("error_message", accepted_response(envelope.msg_id), ss, mc)

\* one delivery to the handler
Deliver(envelope, gen) ==
    LET out == handle_txip_message(sessions, message_cache, envelope, now, gen, config)
    IN  /\ sessions' = out.sessions
        /\ message_cache' = out.message_cache
        /\ response' = out.response
        /\ handler_path' = out.path
        /\ UNCHANGED config

\* the periodic sweep
Sweep ==
    LET out == cleanup_expired(sessions, message_cache, now, config)
    IN  /\ sessions' = out.sessions
        /\ message_cache' = out.message_cache
        /\ UNCHANGED <<config, response, handler_path>>

(***************************************************************************)
(* The handler as the runtime runs it: each request is a task that makes   *)
(* the SessionManager calls of its handler one after the other, and each   *)
(* call takes the RwLocks of `sessions` and `message_cache` in the order   *)
(* of its code.  Tasks interleave between calls and between locks.         *)
(***************************************************************************)
\* the tasks the runtime runs in parallel
Tasks == {"task-1", "task-2"}

\* the RwLocks of SessionManager, and the holder of a lock nobody holds
Locks == {"sessions", "message_cache"}
Unlocked == "unlocked"

\* SessionManager::close_session that locks the message cache before the registry
LockOrder_CloseCacheFirst(call) ==
    CASE call \in {"handle_hello", "cleanup_expired"} -> <<"sessions", "message_cache">>
      [] call = "close_session" -> <<"message_cache", "sessions">>
      [] call \in {"is_duplicate_message", "record_message"} -> <<"message_cache">>
      [] call \in {"touch_session", "get_session"} -> <<"sessions">>

\* the locks each SessionManager call takes, in the order in which it takes them
LockOrder(call) ==
    CASE call \in {"handle_hello", "close_session", "cleanup_expired"} ->
             <<"sessions", "message_cache">>
      [] call \in {"is_duplicate_message", "record_message"} -> <<"message_cache">>
      [] call \in {"touch_session", "get_session"} -> <<"sessions">>

\* the calls that read the provider's clock before they lock
ClockReadingCalls == {"handle_hello", "touch_session", "cleanup_expired"}

\* a task that handles no request: pc is the call the task makes next, held the
\* number of locks of that call it holds, returned what its last call returned,
\* since the clock when the task last ran
IdleTask ==
    [pc |-> "idle", held |-> 0, envelope |-> None, ts |-> None, returned |-> NoCall,
     path |-> "none", since |-> 0]

(***************************************************************************)
(* The initial state: CoreProverEngine::new, TGPSession::new and           *)
(* SessionManager::new.                                                    *)
(***************************************************************************)
SessionConfigDefault ==
    [session_timeout_seconds |-> 300,
     message_cache_ttl_seconds |-> 600,
     heartbeat_interval_seconds |-> 30]

TGPInit ==
    /\ current_timestamp = 0
    /\ session = TGPSessionNew("sess-1", 0)
    /\ session_result = NoCall

TxipInit ==
    /\ sessions = EmptyMap
    /\ message_cache = EmptyMap
    /\ response = empty_response
    /\ handler_path = "none"
    /\ tasks = [t \in Tasks |-> IdleTask]
    /\ lock_holder = [l \in Locks |-> Unlocked]

Init ==
    /\ TGPInit
    /\ TxipInit
    /\ config = SessionConfigDefault
    /\ escrows = <<>>
    /\ receipts = <<>>
    /\ next_session_counter = 1
    /\ current_mono = 0
    /\ current_unix = GenesisUnix
    /\ block_interval_secs = BlockIntervalSecs
    /\ current_block_height = 1
    /\ result = OkUnit

(***************************************************************************)
(* advance_time.                                                           *)
(***************************************************************************)
\* the three `+=` and the division run in this order; a panic leaves the fields
\* written before it
advance_time(secs) ==
    \E overflow_checks \in OverflowChecks :
        /\ UNCHANGED <<escrows, receipts, next_session_counter, block_interval_secs>>
        /\ IF overflow_checks /\ AddOverflows(current_mono, secs)
           THEN /\ result' = PanicAddOverflow
                /\ UNCHANGED <<current_mono, current_unix, current_block_height>>
           ELSE /\ current_mono' = WrappingAdd(current_mono, secs)
                /\ IF overflow_checks /\ AddOverflows(current_unix, secs)
                   THEN /\ result' = PanicAddOverflow
                        /\ UNCHANGED <<current_unix, current_block_height>>
                   ELSE /\ current_unix' = WrappingAdd(current_unix, secs)
                        /\ IF block_interval_secs = 0
                           THEN /\ result' = PanicDivideByZero
                                /\ UNCHANGED current_block_height
                           ELSE LET blocks == secs \div block_interval_secs IN
                                IF overflow_checks
                                   /\ AddOverflows(current_block_height, blocks)
                                THEN /\ result' = PanicAddOverflow
                                     /\ UNCHANGED current_block_height
                                ELSE /\ current_block_height' =
                                            WrappingAdd(current_block_height, blocks)
                                     /\ result' = OkUnit

(***************************************************************************)
(* buyer_commit.                                                           *)
(***************************************************************************)
buyer_commit(buyer, seller, amount, profile, buyer_chain_id, buyer_commit_txid) ==
    /\ Len(escrows) < MaxEscrows
    /\ IF IsBlank(buyer_commit_txid)
       THEN /\ result' = Err("buyer_commit_txid is required")
            /\ UNCHANGED engine_vars
       ELSE LET order_id == OrderIdOf(next_session_counter)
            IN  \E overflow_checks \in OverflowChecks :
                /\ next_session_counter' = next_session_counter + 1
                /\ IF /\ overflow_checks
                      /\ AddOverflows(now.mono, profile.timing.acceptance_window_secs)
                   THEN /\ result' = PanicAddOverflow
                        /\ UNCHANGED escrows
                   ELSE /\ escrows' =
                               Append(escrows,
                                      EscrowNew(order_id, buyer, seller, amount, profile,
                                                buyer_chain_id, buyer_commit_txid,
                                                now.mono))
                        /\ result' = OkOrderId(order_id)
                /\ UNCHANGED <<receipts, current_mono, current_unix,
                               block_interval_secs, current_block_height>>

\* what the call just made returned
Return(r) == result' = r

Fail(msg) ==
    /\ Return(Err(msg))
    /\ UNCHANGED engine_vars

(***************************************************************************)
(* seller_accept.                                                          *)
(***************************************************************************)
\* the escrow as a panic in the computation of the fulfillment deadline leaves it
AcceptInterrupted(e, txid) ==
    [e EXCEPT !.seller_chain_id = ChainId,
              !.seller_accept_mono = Some(now.mono),
              !.seller_accept_txid = Some(txid)]

\* seller_accept that does not record when the seller accepted
AcceptedEscrow_AcceptMonoNotRecorded(e, txid) ==
    [e EXCEPT !.seller_chain_id = ChainId,
              !.seller_accept_txid = Some(txid),
              !.fulfillment_deadline_mono =
                  Some(WrappingAdd(now.mono, e.profile.timing.fulfillment_window_secs)),
              !.state = "SellerAccepted"]

AcceptedEscrow(e, txid) ==
    [e EXCEPT !.seller_chain_id = ChainId,
              !.seller_accept_mono = Some(now.mono),
              !.seller_accept_txid = Some(txid),
              !.fulfillment_deadline_mono =
                  Some(WrappingAdd(now.mono, e.profile.timing.fulfillment_window_secs)),
              !.state = "SellerAccepted"]

seller_accept(order_id, seller_accept_txid) ==
    LET i == get_escrow(order_id) IN
    IF i = 0 THEN Fail(ErrNotFound)
    ELSE IF escrows[i].state # "BuyerCommitted"
    THEN Fail("seller_accept only valid from BuyerCommitted")
    ELSE IF IsBlank(seller_accept_txid)
    THEN Fail("seller_accept_txid is required")
    ELSE IF now.mono > escrows[i].acceptance_deadline_mono
    THEN Fail("acceptance window expired")
    ELSE \E overflow_checks \in OverflowChecks :
         /\ IF /\ overflow_checks
               /\ AddOverflows(now.mono,
                               escrows[i].profile.timing.fulfillment_window_secs)
            THEN /\ escrows' = [escrows EXCEPT
                                   ![i] = AcceptInterrupted(escrows[i], seller_accept_txid)]
                 /\ Return(PanicAddOverflow)
            ELSE /\ escrows' = [escrows EXCEPT
                                   ![i] = AcceptedEscrow(escrows[i], seller_accept_txid)]
                 /\ Return(OkUnit)
         /\ UNCHANGED <<receipts, next_session_counter, current_mono, current_unix,
                        block_interval_secs, current_block_height>>

(***************************************************************************)
(* create_receipt_stub: the partial receipt built from the escrow as       *)
(* seller_fulfill left it.                                                 *)
(***************************************************************************)
\* create_receipt_stub that discounts every late fulfillment, enabled or not
ReceiptStub_DiscountWheneverLate(e, is_late) ==
    LET late_discount == IF is_late THEN e.profile.late_discount_pct ELSE 0
        discount_expiration_unix ==
            IF late_discount > 0
            THEN now.unix + (e.profile.discount_expiration_days * 86400)
            ELSE 0
    IN  [session_id |-> e.order_id,
         order_amount |-> e.amount,
         fulfillment_mono |-> UnwrapOr(e.fulfillment_mono, now.mono),
         fulfillment_unix |-> now.unix,
         fulfillment_iso |-> now.iso,
         settlement_mono |-> 0,
         settlement_unix |-> 0,
         settlement_iso |-> "",
         late_fulfilled |-> is_late,
         discount_pct |-> late_discount,
         discount_expiration_unix |-> discount_expiration_unix,
         buyer_chain_id |-> e.buyer_chain_id,
         buyer_commit_txid |-> e.buyer_commit_txid,
         seller_chain_id |-> e.seller_chain_id,
         seller_accept_txid |-> UnwrapOr(e.seller_accept_txid, ""),
         seller_fulfill_txid |-> UnwrapOr(e.seller_fulfill_txid, ""),
         seller_claim_txid |-> None,
         seller_refund_txid |-> None,
         buyer_withdraw_txid |-> None,
         seller_block_height |-> 0]

ReceiptStub(e, is_late) ==
    LET late_discount == IF is_late /\ e.profile.enables_late_discount
                         THEN e.profile.late_discount_pct ELSE 0
        discount_expiration_unix ==
            IF late_discount > 0
            THEN now.unix + (e.profile.discount_expiration_days * 86400)
            ELSE 0
    IN  [session_id |-> e.order_id,
         order_amount |-> e.amount,
         fulfillment_mono |-> UnwrapOr(e.fulfillment_mono, now.mono),
         fulfillment_unix |-> now.unix,
         fulfillment_iso |-> now.iso,
         settlement_mono |-> 0,
         settlement_unix |-> 0,
         settlement_iso |-> "",
         late_fulfilled |-> is_late,
         discount_pct |-> late_discount,
         discount_expiration_unix |-> discount_expiration_unix,
         buyer_chain_id |-> e.buyer_chain_id,
         buyer_commit_txid |-> e.buyer_commit_txid,
         seller_chain_id |-> e.seller_chain_id,
         seller_accept_txid |-> UnwrapOr(e.seller_accept_txid, ""),
         seller_fulfill_txid |-> UnwrapOr(e.seller_fulfill_txid, ""),
         seller_claim_txid |-> None,
         seller_refund_txid |-> None,
         buyer_withdraw_txid |-> None,
         seller_block_height |-> 0]

(***************************************************************************)
(* seller_fulfill.                                                         *)
(***************************************************************************)
\* the lateness test of seller_fulfill counting the second of the deadline as late
IsLate_AtDeadline(e) ==
    IF IsSome(e.fulfillment_deadline_mono)
    THEN now.mono >= e.fulfillment_deadline_mono[1]
    ELSE FALSE

IsLate(e) ==
    IF IsSome(e.fulfillment_deadline_mono)
    THEN now.mono > e.fulfillment_deadline_mono[1]
    ELSE FALSE

FulfilledEscrow(e, txid, is_late) ==
    [e EXCEPT !.fulfillment_mono = Some(now.mono),
              !.seller_fulfill_txid = Some(txid),
              !.state = IF is_late THEN "FulfillmentExpired" ELSE "SellerFulfilled"]

seller_fulfill(order_id, seller_fulfill_txid) ==
    LET i == get_escrow(order_id) IN
    Len(receipts) < MaxReceipts /\
    IF i = 0 THEN Fail(ErrNotFound)
    ELSE IF ~can_fulfill(escrows[i].state)
    THEN Fail("seller_fulfill invalid in state " \o escrows[i].state)
    ELSE IF IsBlank(seller_fulfill_txid)
    THEN Fail("seller_fulfill_txid is required")
    ELSE LET is_late == IsLate(escrows[i])
             e2 == FulfilledEscrow(escrows[i], seller_fulfill_txid, is_late)
         IN  /\ escrows' = [escrows EXCEPT ![i] = e2]
             /\ receipts' = Append(receipts, ReceiptStub(e2, is_late))
             /\ Return(OkUnit)
             /\ UNCHANGED <<next_session_counter, current_mono, current_unix,
                            block_interval_secs, current_block_height>>

(***************************************************************************)
(* finalize_receipt: the last receipt of the order gets the settlement     *)
(* fields of the escrow as the caller left it; 0 when the order has none.  *)
(***************************************************************************)
StubIndex(order_id) ==
    IF \E k \in 1..Len(receipts) : receipts[k].session_id = order_id
    THEN CHOOSE k \in 1..Len(receipts) :
            /\ receipts[k].session_id = order_id
            /\ \A j \in (k + 1)..Len(receipts) : receipts[j].session_id # order_id
    ELSE 0

\* finalize_receipt that leaves the settlement time of the stub as it is
FinalizedReceipt_SettlementMonoNotWritten(meta, e, refunded) ==
    LET m1 == [meta EXCEPT !.settlement_unix = now.unix,
                           !.settlement_iso = now.iso,
                           !.seller_block_height = UnwrapOr(e.seller_block_height, 0)]
    IN  IF refunded
        THEN [m1 EXCEPT !.seller_refund_txid = e.seller_refund_txid]
        ELSE [m1 EXCEPT !.seller_claim_txid = e.seller_claim_txid]

FinalizedReceipt(meta, e, refunded) ==
    LET m1 == [meta EXCEPT !.settlement_mono = UnwrapOr(e.settlement_mono, now.mono),
                           !.settlement_unix = now.unix,
                           !.settlement_iso = now.iso,
                           !.seller_block_height = UnwrapOr(e.seller_block_height, 0)]
    IN  IF refunded
        THEN [m1 EXCEPT !.seller_refund_txid = e.seller_refund_txid]
        ELSE [m1 EXCEPT !.seller_claim_txid = e.seller_claim_txid]

ErrNoStub == "receipt stub not found"

\* the tail shared by seller_claim, seller_refund and timed_release: the escrow is
\* already written when finalize_receipt runs, and its error is passed on with `?`
Settle(order_id, i, e2, refunded) ==
    LET k == StubIndex(order_id) IN
    /\ escrows' = [escrows EXCEPT ![i] = e2]
    /\ IF k = 0
       THEN /\ receipts' = receipts
            /\ Return(Err(ErrNoStub))
       ELSE /\ receipts' = [receipts EXCEPT ![k] = FinalizedReceipt(receipts[k], e2, refunded)]
            /\ Return(OkAmount(e2.amount))
    /\ UNCHANGED <<next_session_counter, current_mono, current_unix,
                   block_interval_secs, current_block_height>>

(***************************************************************************)
(* seller_claim.                                                           *)
(***************************************************************************)
\* the settlement test also passing an escrow the buyer has withdrawn
SettleAllowedState_Withdrawn(s) ==
    s = "SellerFulfilled" \/ s = "FulfillmentExpired" \/ s = "BuyerWithdrawn"

\* the settlement test also passing an escrow the seller has claimed
SettleAllowedState_Claimed(s) ==
    s = "SellerFulfilled" \/ s = "FulfillmentExpired" \/ s = "SellerClaimed"

\* the state test of seller_claim, seller_refund and timed_release
SettleAllowedState(s) == s = "SellerFulfilled" \/ s = "FulfillmentExpired"

ClaimedEscrow(e, txid) ==
    [e EXCEPT !.seller_claim_txid = Some(txid),
              !.settlement_mono = Some(now.mono),
              !.seller_block_height = Some(current_block_height),
              !.state = "SellerClaimed"]

seller_claim(order_id, seller_claim_txid) ==
    LET i == get_escrow(order_id) IN
    IF i = 0 THEN Fail(ErrNotFound)
    ELSE IF ~SettleAllowedState(escrows[i].state)
    THEN Fail("seller_claim only valid after fulfillment")
    ELSE IF IsBlank(seller_claim_txid)
    THEN Fail("seller_claim_txid is required")
    ELSE Settle(order_id, i,
                ClaimedEscrow(escrows[i], seller_claim_txid), FALSE)

(***************************************************************************)
(* seller_refund.                                                          *)
(***************************************************************************)
\* seller_refund that settles the escrow without recording the refund txid
RefundedEscrow_TxidNotRecorded(e, txid) ==
    [e EXCEPT !.settlement_mono = Some(now.mono),
              !.seller_block_height = Some(current_block_height),
              !.state = "SellerRefunded"]

RefundedEscrow(e, txid) ==
    [e EXCEPT !.seller_refund_txid = Some(txid),
              !.settlement_mono = Some(now.mono),
              !.seller_block_height = Some(current_block_height),
              !.state = "SellerRefunded"]

seller_refund(order_id, seller_refund_txid) ==
    LET i == get_escrow(order_id) IN
    IF i = 0 THEN Fail(ErrNotFound)
    ELSE IF ~SettleAllowedState(escrows[i].state)
    THEN Fail("seller_refund only valid after fulfillment")
    ELSE IF IsBlank(seller_refund_txid)
    THEN Fail("seller_refund_txid is required")
    ELSE Settle(order_id, i,
                RefundedEscrow(escrows[i], seller_refund_txid), TRUE)

(***************************************************************************)
(* buyer_withdraw.                                                         *)
(***************************************************************************)
\* buyer_withdraw also let through on an accepted escrow
WithdrawAllowedState_FromAccepted(s) ==
    s = "BuyerCommitted" \/ s = "FulfillmentExpired" \/ s = "SellerAccepted"

\* buyer_withdraw testing only that the escrow was not refunded
WithdrawAllowedState_NotRefunded(s) == s # "SellerRefunded"

WithdrawAllowedState(s) == s = "BuyerCommitted" \/ s = "FulfillmentExpired"

WithdrawnEscrow(e, txid) ==
    [e EXCEPT !.buyer_withdraw_txid = IF IsSome(txid) THEN txid ELSE @,
              !.state = "BuyerWithdrawn",
              !.settlement_mono = Some(now.mono),
              !.seller_block_height = None]

\* buyer_withdraw that is allowed already at the second of the acceptance deadline
buyer_withdraw_AtDeadline(order_id, buyer_withdraw_txid) ==
    LET i == get_escrow(order_id) IN
    IF i = 0 THEN Fail(ErrNotFound)
    ELSE IF ~WithdrawAllowedState(escrows[i].state)
    THEN Fail("buyer_withdraw not allowed in this state")
    ELSE IF /\ escrows[i].state = "BuyerCommitted"
            /\ now.mono < escrows[i].acceptance_deadline_mono
    THEN Fail("buyer_withdraw not yet allowed")
    ELSE /\ escrows' = [escrows EXCEPT ![i] = WithdrawnEscrow(escrows[i], buyer_withdraw_txid)]
         /\ Return(OkAmount(escrows[i].amount))
         /\ UNCHANGED <<receipts, next_session_counter, current_mono, current_unix,
                        block_interval_secs, current_block_height>>

buyer_withdraw(order_id, buyer_withdraw_txid) ==
    LET i == get_escrow(order_id) IN
    IF i = 0 THEN Fail(ErrNotFound)
    ELSE IF ~WithdrawAllowedState(escrows[i].state)
    THEN Fail("buyer_withdraw not allowed in this state")
    ELSE IF /\ escrows[i].state = "BuyerCommitted"
            /\ now.mono <= escrows[i].acceptance_deadline_mono
    THEN Fail("buyer_withdraw not yet allowed")
    ELSE /\ escrows' = [escrows EXCEPT ![i] = WithdrawnEscrow(escrows[i], buyer_withdraw_txid)]
         /\ Return(OkAmount(escrows[i].amount))
         /\ UNCHANGED <<receipts, next_session_counter, current_mono, current_unix,
                        block_interval_secs, current_block_height>>

(***************************************************************************)
(* timed_release.                                                          *)
(***************************************************************************)
AutoClaimTxid(mono) == "auto_claim_txid_" \o ToString(mono)

\* u64::saturating_sub
SaturatingSub(a, b) == IF a >= b THEN a - b ELSE 0

ReleasedEscrow(e) ==
    [e EXCEPT !.seller_claim_txid = Some(AutoClaimTxid(now.mono)),
              !.state = "SellerClaimed",
              !.seller_block_height = Some(current_block_height)]

timed_release(order_id) ==
    LET i == get_escrow(order_id) IN
    IF i = 0 THEN Fail(ErrNotFound)
    ELSE IF ~escrows[i].profile.allows_timed_release
    THEN Fail("timed_release disabled for this profile")
    ELSE IF ~SettleAllowedState(escrows[i].state)
    THEN Fail("timed_release only after fulfillment")
    ELSE IF SaturatingSub(now.mono, UnwrapOr(escrows[i].fulfillment_mono, 0))
                < escrows[i].profile.timing.claim_window_secs
    THEN Fail("claim window not expired")
    ELSE Settle(order_id, i, ReleasedEscrow(escrows[i]), FALSE)

(***************************************************************************)
(* update_state.                                                           *)
(***************************************************************************)
\* update_state that expires the escrow already at the second of its deadline
ExpiredEscrow_AtDeadline(e) ==
    IF /\ e.state = "SellerAccepted"
       /\ IsSome(e.fulfillment_deadline_mono)
       /\ now.mono >= e.fulfillment_deadline_mono[1]
    THEN [e EXCEPT !.state = "FulfillmentExpired"]
    ELSE e

ExpiredEscrow(e) ==
    IF /\ e.state = "SellerAccepted"
       /\ IsSome(e.fulfillment_deadline_mono)
       /\ now.mono > e.fulfillment_deadline_mono[1]
    THEN [e EXCEPT !.state = "FulfillmentExpired"]
    ELSE e

update_state(order_id) ==
    LET i == get_escrow(order_id) IN
    IF i = 0 THEN Fail(ErrNotFound)
    ELSE /\ escrows' = [escrows EXCEPT ![i] = ExpiredEscrow(escrows[i])]
         /\ Return(OkUnit)
         /\ UNCHANGED <<receipts, next_session_counter, current_mono, current_unix,
                        block_interval_secs, current_block_height>>

(***************************************************************************)
(* Queries.                                                                *)
(***************************************************************************)
\* get_receipt: the first receipt of the order, None when it has none
get_receipt(order_id) ==
    IF \E k \in 1..Len(receipts) : receipts[k].session_id = order_id
    THEN Some(receipts[CHOOSE k \in 1..Len(receipts) :
                          /\ receipts[k].session_id = order_id
                          /\ \A j \in 1..(k - 1) : receipts[j].session_id # order_id])
    ELSE None

(***************************************************************************)
(* The engine's callers: any operation, on any order id, at any time.      *)
(***************************************************************************)
AdvanceTime ==
    /\ \E secs \in AdvanceSecs :
          /\ current_mono + secs <= MaxMono
          /\ advance_time(secs)
    /\ UNCHANGED <<tgp_vars, txip_vars, task_vars>>

BuyerCommit ==
    /\ \E amount \in Amounts, profile \in Profiles, chain \in BuyerChainIds,
          txid \in CommitTxids :
          buyer_commit("buyer", "seller", amount, profile, chain, txid)
    /\ UNCHANGED <<tgp_vars, txip_vars, task_vars>>

SellerAccept ==
    /\ \E o \in OrderIdInputs, txid \in AcceptTxids : seller_accept(o, txid)
    /\ UNCHANGED <<tgp_vars, txip_vars, task_vars>>

SellerFulfill ==
    /\ \E o \in OrderIdInputs, txid \in FulfillTxids : seller_fulfill(o, txid)
    /\ UNCHANGED <<tgp_vars, txip_vars, task_vars>>

SellerClaim ==
    /\ \E o \in OrderIdInputs, txid \in ClaimTxids : seller_claim(o, txid)
    /\ UNCHANGED <<tgp_vars, txip_vars, task_vars>>

SellerRefund ==
    /\ \E o \in OrderIdInputs, txid \in RefundTxids : seller_refund(o, txid)
    /\ UNCHANGED <<tgp_vars, txip_vars, task_vars>>

BuyerWithdraw ==
    /\ \E o \in OrderIdInputs, txid \in WithdrawTxids : buyer_withdraw(o, txid)
    /\ UNCHANGED <<tgp_vars, txip_vars, task_vars>>

TimedRelease ==
    /\ \E o \in OrderIdInputs : timed_release(o)
    /\ UNCHANGED <<tgp_vars, txip_vars, task_vars>>

UpdateState ==
    /\ \E o \in OrderIdInputs : update_state(o)
    /\ UNCHANGED <<tgp_vars, txip_vars, task_vars>>

Next ==
    \/ AdvanceTime
    \/ BuyerCommit
    \/ SellerAccept
    \/ SellerFulfill
    \/ SellerClaim
    \/ SellerRefund
    \/ BuyerWithdraw
    \/ TimedRelease
    \/ UpdateState

Spec == Init /\ [][Next]_vars

(***************************************************************************)
(* A TGP session under any sequence of its operations, as the system clock *)
(* moves on.                                                               *)
(***************************************************************************)
SessionTransition ==
    /\ \E new_state \in TGPStates : transition(new_state)
    /\ UNCHANGED <<engine_vars, result, txip_vars, task_vars>>

SessionSetTimeout ==
    /\ \E seconds \in TimeoutSecs : set_timeout(seconds)
    /\ UNCHANGED <<engine_vars, result, txip_vars, task_vars>>

SessionClearTimeout ==
    /\ clear_timeout
    /\ UNCHANGED <<engine_vars, result, txip_vars, task_vars>>

SessionForceError ==
    /\ force_error
    /\ UNCHANGED <<engine_vars, result, txip_vars, task_vars>>

SessionTick ==
    /\ \E secs \in TickSecs : Tick(secs)
    /\ UNCHANGED <<engine_vars, result, txip_vars, task_vars>>

SessionNext ==
    \/ SessionTransition
    \/ SessionSetTimeout
    \/ SessionClearTimeout
    \/ SessionForceError
    \/ SessionTick

SpecSession == Init /\ [][SessionNext]_vars

(***************************************************************************)
(* The TxIP handler under any sequence of deliveries and sweeps, timed by  *)
(* the engine's clock.                                                     *)
(***************************************************************************)
TxipDeliver ==
    /\ \E envelope \in Envelopes, gen \in GeneratedMsgIds : Deliver(envelope, gen)
    /\ UNCHANGED <<engine_vars, result, tgp_vars, task_vars>>

TxipSweep ==
    /\ Sweep
    /\ UNCHANGED <<engine_vars, result, tgp_vars, task_vars>>

TxipInitAnyConfig ==
    /\ TGPInit
    /\ TxipInit
    /\ config \in SessionConfigs
    /\ escrows = <<>>
    /\ receipts = <<>>
    /\ next_session_counter = 1
    /\ current_mono = 0
    /\ current_unix = GenesisUnix
    /\ block_interval_secs = BlockIntervalSecs
    /\ current_block_height = 1
    /\ result = OkUnit

TxipNext ==
    \/ TxipDeliver
    \/ TxipSweep
    \/ AdvanceTime

SpecTxip == TxipInitAnyConfig /\ [][TxipNext]_vars

(***************************************************************************)
(* The TxIP handler under concurrent requests: the steps of a task.        *)
(***************************************************************************)
\* the envelopes the concurrent clients send to one session: HELLO as msg-a, with
\* chains or without, then HEARTBEAT, CLOSE and a TGP message as msg-b, and a TGP
\* message of an unsupported version
ConcurrentEnvelopes ==
    {e \in WellFormedEnvelopes :
        IF e.payload.hello # None
        THEN e.msg_id = "msg-a" /\ e.payload.hello[1].supported_tgp_versions = <<"2.0">>
        ELSE /\ e.msg_id = "msg-b"
             /\ e.payload.variant = "Tgp" \/ e.payload.control_type \in {"Heartbeat", "Close"}}
    \cup {[e EXCEPT !.txip_version = "0.1"] :
             e \in {w \in WellFormedEnvelopes : w.msg_id = "msg-b" /\ w.payload.variant = "Tgp"}}

\* the values the clock had between the moment `since` and now
ClockSince(since) ==
    {TimeTruth(m, current_unix - (current_mono - m)) : m \in since..current_mono}

\* the task goes on to its next SessionManager call
CallNext(task, call) ==
    [task EXCEPT !.pc = call, !.held = 0, !.ts = None,
                 !.since = IF call \in ClockReadingCalls THEN current_mono ELSE 0]

\* the task has taken the return `path` of its handler and builds the response
Returning(task, path) ==
    [task EXCEPT !.pc = "respond", !.held = 0, !.ts = None, !.path = path,
                 !.since = 0]

\* handle_txip_message and handle_control_message: the routing of an envelope that
\* is valid and no duplicate
Route(task) ==
    LET envelope == task.envelope[1] IN
    CASE envelope.message_type = "Control" ->
             (IF envelope.payload.variant # "Control"
              THEN Returning(task, "control_payload_invalid")
              ELSE CASE envelope.payload.control_type = "Hello" ->
                            CallNext(task, "handle_hello")
                     [] envelope.payload.control_type = "Heartbeat" ->
                            CallNext(task, "touch_session")
                     [] envelope.payload.control_type = "Close" ->
                            CallNext(task, "close_session")
                     [] envelope.payload.control_type = "Welcome" ->
                            Returning(task, "welcome_refused"))
      [] envelope.message_type = "Tgp" -> CallNext(task, "get_session")
      [] envelope.message_type = "Error" -> Returning(task, "error_message")

\* the handler after the SessionManager call task.pc has returned `returned`
AfterCall(task, returned) ==
    CASE task.pc = "is_duplicate_message" ->
             (IF returned THEN Returning(task, "duplicate") ELSE Route(task))
      [] task.pc = "handle_hello" ->
             (IF IsOk(returned)
              THEN CallNext([task EXCEPT !.returned = returned], "record_message")
              ELSE Returning([task EXCEPT !.returned = returned], "hello_failed"))
      [] task.pc = "touch_session" ->
             (IF task.envelope[1].message_type = "Control" /\ IsErr(returned)
              THEN Returning([task EXCEPT !.returned = returned], "heartbeat_failed")
              ELSE CallNext(task, "record_message"))
      [] task.pc = "get_session" ->
             (IF returned = None
              THEN Returning(task, "tgp_no_session")
              ELSE CallNext(task, "touch_session"))
      [] task.pc = "record_message" ->
             (IF task.envelope[1].message_type = "Tgp"
              THEN Returning(task, IF task.envelope[1].payload.variant = "Tgp"
                                   THEN "tgp" ELSE "tgp_payload_invalid")
              ELSE IF task.envelope[1].payload.control_type = "Hello"
              THEN Returning(task, "hello")
              ELSE Returning(task, "heartbeat"))
      [] task.pc = "close_session" -> Returning(task, "close")
      [] task.pc = "cleanup_expired" -> IdleTask

\* the response of each return of the handler
ResponseOf(task, gen, ts, cfg) ==
    LET envelope == task.envelope[1]
        refused(code, status, details, retryable) ==
            error_response(gen, envelope.session_id, code, status, Some(envelope.msg_id),
                           details, retryable, ts)
    IN  CASE task.path = "invalid" ->
                 refused("TxipInvalidEnvelope", 400, validate(envelope)[2], FALSE)
          [] task.path \in {"duplicate", "heartbeat", "tgp", "error_message"} ->
                 accepted_response(envelope.msg_id)
          [] task.path = "hello" ->
                 welcome_response(gen, envelope.session_id, task.returned[2], cfg, ts)
          [] task.path = "hello_failed" ->
                 refused("TxipInternalError", 500,
                         "Failed to create session: " \o task.returned[2], TRUE)
          [] task.path = "heartbeat_failed" ->
                 refused("TxipInternalError", 500,
                         "Failed to update session: " \o task.returned[2], TRUE)
          [] task.path = "close" -> empty_response
          [] task.path = "welcome_refused" ->
                 refused("TxipInvalidEnvelope", 400,
                         "WELCOME messages are sent by TBC, not received", FALSE)
          [] task.path = "control_payload_invalid" ->
                 refused("TxipInvalidEnvelope", 400,
                         "Invalid payload for CONTROL message", FALSE)
          [] task.path = "tgp_no_session" ->
                 refused("TxipUnauthenticated", 401,
                         "Session not found. Send HELLO first.", FALSE)
          [] task.path = "tgp_payload_invalid" ->
                 refused("TxipInvalidEnvelope", 400, "Invalid payload for TGP message",
                         FALSE)

\* handle_txip_message is entered with an envelope, which it validates
Receive(t, envelope) ==
    /\ tasks[t].pc = "idle"
    /\ tasks' = [tasks EXCEPT ![t] =
                    IF IsErr(validate(envelope))
                    THEN Returning([IdleTask EXCEPT !.envelope = Some(envelope)], "invalid")
                    ELSE CallNext([IdleTask EXCEPT !.envelope = Some(envelope)],
                                  "is_duplicate_message")]
    /\ UNCHANGED <<txip_vars, lock_holder>>

\* the periodic task enters cleanup_expired
BeginSweep(t) ==
    /\ tasks[t].pc = "idle"
    /\ tasks' = [tasks EXCEPT ![t] = CallNext(IdleTask, "cleanup_expired")]
    /\ UNCHANGED <<txip_vars, lock_holder>>

\* the lock the call of task t takes next
NextLock(t) == LockOrder(tasks[t].pc)[tasks[t].held + 1]

\* SessionManager::is_duplicate_message under the read lock of the cache
RunIsDuplicateMessage(t) ==
    /\ tasks[t].pc = "is_duplicate_message"
    /\ lock_holder[NextLock(t)] = Unlocked
    /\ tasks' = [tasks EXCEPT ![t] =
                    AfterCall(@, is_duplicate_message(message_cache,
                                                      @.envelope[1].session_id,
                                                      @.envelope[1].msg_id))]
    /\ UNCHANGED <<txip_vars, lock_holder>>

\* SessionManager::get_session under the read lock of the registry
RunGetSession(t) ==
    /\ tasks[t].pc = "get_session"
    /\ lock_holder[NextLock(t)] = Unlocked
    /\ tasks' = [tasks EXCEPT ![t] =
                    AfterCall(@, get_session(sessions, @.envelope[1].session_id))]
    /\ UNCHANGED <<txip_vars, lock_holder>>

\* SessionManager::touch_session under the write lock of the registry, with the
\* time it read before it locked
RunTouchSession(t) ==
    /\ tasks[t].pc = "touch_session"
    /\ lock_holder[NextLock(t)] = Unlocked
    /\ \E ts \in ClockSince(tasks[t].since) :
          LET touched == touch_session(sessions, tasks[t].envelope[1].session_id, ts)
          IN  /\ sessions' = touched.sessions
              /\ tasks' = [tasks EXCEPT ![t] = AfterCall(@, touched.result)]
    /\ UNCHANGED <<message_cache, config, response, handler_path, lock_holder>>

\* SessionManager::record_message under the write lock of the cache
RunRecordMessage(t) ==
    /\ tasks[t].pc = "record_message"
    /\ lock_holder[NextLock(t)] = Unlocked
    /\ message_cache' = record_message(message_cache, tasks[t].envelope[1].session_id,
                                       tasks[t].envelope[1].msg_id)
    /\ tasks' = [tasks EXCEPT ![t] = AfterCall(@, OkUnit)]
    /\ UNCHANGED <<sessions, config, response, handler_path, lock_holder>>

\* the calls that hold both locks at once
TwoLockCalls == {"handle_hello", "close_session", "cleanup_expired"}

\* what the call of task t, made at time ts, returns and leaves in the two maps
CallOutcome(t, ts) ==
    LET envelope == tasks[t].envelope[1] IN
    CASE tasks[t].pc = "handle_hello" ->
             handle_hello(sessions, message_cache, envelope.payload.hello[1],
                          envelope.session_id, envelope.role, ts)
      [] tasks[t].pc = "close_session" ->
             [result |-> OkUnit,
              sessions |-> close_session(sessions, message_cache,
                                         envelope.session_id).sessions,
              message_cache |-> close_session(sessions, message_cache,
                                              envelope.session_id).message_cache]
      [] tasks[t].pc = "cleanup_expired" ->
             [result |-> Unit,
              sessions |-> cleanup_expired(sessions, message_cache, ts, config).sessions,
              message_cache |->
                  cleanup_expired(sessions, message_cache, ts, config).message_cache]

\* SessionManager::handle_hello returns before it locks when the negotiation fails
HelloRefused(t) ==
    /\ tasks[t].pc = "handle_hello"
    /\ tasks[t].held = 0
    /\ IsErr(CallOutcome(t, now).result)

RunHelloRefused(t) ==
    /\ HelloRefused(t)
    /\ tasks' = [tasks EXCEPT ![t] = AfterCall(@, CallOutcome(t, now).result)]
    /\ UNCHANGED <<txip_vars, lock_holder>>

\* the write a call makes to the map that lock guards
WriteUnder(lock, out) ==
    IF lock = "sessions"
    THEN sessions' = out.sessions /\ UNCHANGED message_cache
    ELSE message_cache' = out.message_cache /\ UNCHANGED sessions

\* handle_hello, close_session or cleanup_expired takes its first lock, with the
\* time it read before
TakeFirstLock(t) ==
    /\ tasks[t].pc \in TwoLockCalls
    /\ tasks[t].held = 0
    /\ ~HelloRefused(t)
    /\ lock_holder[NextLock(t)] = Unlocked
    /\ \E ts \in ClockSince(tasks[t].since) :
          /\ WriteUnder(NextLock(t), CallOutcome(t, ts))
          /\ tasks' = [tasks EXCEPT ![t].held = 1, ![t].ts = Some(ts), ![t].since = 0]
    /\ lock_holder' = [lock_holder EXCEPT ![NextLock(t)] = t]
    /\ UNCHANGED <<config, response, handler_path>>

\* the same call takes its second lock, finishes and drops both locks
TakeSecondLock(t) ==
    /\ tasks[t].pc \in TwoLockCalls
    /\ tasks[t].held = 1
    /\ lock_holder[NextLock(t)] = Unlocked
    /\ WriteUnder(NextLock(t), CallOutcome(t, tasks[t].ts[1]))
    /\ tasks' = [tasks EXCEPT ![t] = AfterCall(@, CallOutcome(t, tasks[t].ts[1]).result)]
    /\ lock_holder' = [lock_holder EXCEPT ![LockOrder(tasks[t].pc)[1]] = Unlocked]
    /\ UNCHANGED <<config, response, handler_path>>

\* the handler returns its response
Respond(t, gen) ==
    /\ tasks[t].pc = "respond"
    /\ response' = ResponseOf(tasks[t], gen, now, config)
    /\ handler_path' = tasks[t].path
    /\ tasks' = [tasks EXCEPT ![t] = IdleTask]
    /\ UNCHANGED <<sessions, message_cache, config, lock_holder>>

TaskReceive ==
    /\ \E t \in Tasks, envelope \in ConcurrentEnvelopes : Receive(t, envelope)
    /\ UNCHANGED <<engine_vars, result, tgp_vars>>

TaskBeginSweep ==
    /\ \E t \in Tasks : BeginSweep(t)
    /\ UNCHANGED <<engine_vars, result, tgp_vars>>

TaskIsDuplicateMessage ==
    /\ \E t \in Tasks : RunIsDuplicateMessage(t)
    /\ UNCHANGED <<engine_vars, result, tgp_vars>>

TaskGetSession ==
    /\ \E t \in Tasks : RunGetSession(t)
    /\ UNCHANGED <<engine_vars, result, tgp_vars>>

TaskTouchSession ==
    /\ \E t \in Tasks : RunTouchSession(t)
    /\ UNCHANGED <<engine_vars, result, tgp_vars>>

TaskRecordMessage ==
    /\ \E t \in Tasks : RunRecordMessage(t)
    /\ UNCHANGED <<engine_vars, result, tgp_vars>>

TaskHelloRefused ==
    /\ \E t \in Tasks : RunHelloRefused(t)
    /\ UNCHANGED <<engine_vars, result, tgp_vars>>

TaskFirstLock ==
    /\ \E t \in Tasks : TakeFirstLock(t)
    /\ UNCHANGED <<engine_vars, result, tgp_vars>>

TaskSecondLock ==
    /\ \E t \in Tasks : TakeSecondLock(t)
    /\ UNCHANGED <<engine_vars, result, tgp_vars>>

TaskRespond ==
    /\ \E t \in Tasks, gen \in GeneratedMsgIds : Respond(t, gen)
    /\ UNCHANGED <<engine_vars, result, tgp_vars>>

TasksNext ==
    \/ TaskReceive
    \/ TaskBeginSweep
    \/ TaskIsDuplicateMessage
    \/ TaskGetSession
    \/ TaskTouchSession
    \/ TaskRecordMessage
    \/ TaskHelloRefused
    \/ TaskFirstLock
    \/ TaskSecondLock
    \/ TaskRespond
    \/ AdvanceTime

SpecTasks == TxipInitAnyConfig /\ [][TasksNext]_vars

(***************************************************************************)
(* The engine on boundary inputs: any block interval, advances by the      *)
(* largest u64, profiles whose windows are zero or the largest u64,        *)
(* commits of amount zero.  Nothing is called on an engine after a panic.  *)
(***************************************************************************)
BlockIntervals == {0, 2, BlockIntervalSecs}
BoundarySecs == {1, 2, U64Max}
BoundaryWindows == {0, U64Max}
BoundaryAmounts == {0, 25}

BoundaryProfiles ==
    { [timing |-> [acceptance_window_secs |-> aw,
                   fulfillment_window_secs |-> fw,
                   claim_window_secs |-> 0],
       allows_timed_release |-> TRUE,
       enables_late_discount |-> TRUE,
       late_discount_pct |-> 10,
       discount_expiration_days |-> 90] : aw \in BoundaryWindows, fw \in BoundaryWindows }

\* CoreProverEngine::new with any block interval
BoundaryInit ==
    /\ TGPInit
    /\ TxipInit
    /\ config = SessionConfigDefault
    /\ escrows = <<>>
    /\ receipts = <<>>
    /\ next_session_counter = 1
    /\ current_mono = 0
    /\ current_unix = GenesisUnix
    /\ block_interval_secs \in BlockIntervals
    /\ current_block_height = 1
    /\ result = OkUnit

\* the clock is advanced second by second up to MaxClock and again from MaxClock
\* seconds before the largest u64, and by the largest u64 once, on an engine that
\* has mined at most MaxClock blocks
BoundaryAdvanceTime ==
    /\ ~IsPanic(result)
    /\ \E secs \in BoundarySecs :
          /\ IF secs = U64Max
             THEN current_mono <= MaxClock /\ current_block_height <= 1 + MaxClock
             ELSE IF current_mono >= U64Max - MaxClock THEN TRUE
                  ELSE current_mono + secs <= MaxClock
          /\ advance_time(secs)
    /\ UNCHANGED <<tgp_vars, txip_vars, task_vars>>

BoundaryCommit ==
    /\ ~IsPanic(result)
    /\ \E amount \in BoundaryAmounts, profile \in BoundaryProfiles, chain \in BuyerChainIds,
          txid \in CommitTxids :
          buyer_commit("buyer", "seller", amount, profile, chain, txid)
    /\ UNCHANGED <<tgp_vars, txip_vars, task_vars>>

BoundaryAccept ==
    /\ ~IsPanic(result)
    /\ SellerAccept

BoundaryNext ==
    \/ BoundaryAdvanceTime
    \/ BoundaryCommit
    \/ BoundaryAccept

SpecBoundary == BoundaryInit /\ [][BoundaryNext]_vars

(***************************************************************************)
(* Fulfillment under every kind of payment profile: with and without the   *)
(* late discount, and with a late discount of zero percent.                *)
(***************************************************************************)
DiscountProfiles ==
    { [timing |-> [acceptance_window_secs |-> 0,
                   fulfillment_window_secs |-> fw,
                   claim_window_secs |-> 0],
       allows_timed_release |-> FALSE,
       enables_late_discount |-> enabled,
       late_discount_pct |-> pct,
       discount_expiration_days |-> 90] :
          fw \in {0, 1}, enabled \in BOOLEAN, pct \in {0, 10} }

DiscountCommit ==
    /\ \E amount \in Amounts, profile \in DiscountProfiles, chain \in BuyerChainIds,
          txid \in CommitTxids :
          buyer_commit("buyer", "seller", amount, profile, chain, txid)
    /\ UNCHANGED <<tgp_vars, txip_vars, task_vars>>

DiscountNext ==
    \/ DiscountCommit
    \/ SellerAccept
    \/ SellerFulfill
    \/ AdvanceTime

SpecDiscount == Init /\ [][DiscountNext]_vars

(***************************************************************************)
(* generate_order_id by itself, which reads and writes the id counter      *)
(* only: on an engine that has issued no id yet and on one that has issued *)
(* IdSpace - 1 of them.                                                    *)
(***************************************************************************)
\* the number of values of the two bytes generate_order_id writes
IdSpace == 256 * 256

generate_order_id ==
    /\ result' = OkOrderId(OrderIdOf(next_session_counter))
    /\ next_session_counter' = next_session_counter + 1
    /\ UNCHANGED <<escrows, receipts, current_mono, current_unix, block_interval_secs,
                   current_block_height>>

OrderIdInit ==
    /\ TGPInit
    /\ TxipInit
    /\ config = SessionConfigDefault
    /\ escrows = <<>>
    /\ receipts = <<>>
    /\ next_session_counter \in {1, IdSpace}
    /\ current_mono = 0
    /\ current_unix = GenesisUnix
    /\ block_interval_secs = BlockIntervalSecs
    /\ current_block_height = 1
    /\ result = OkUnit

\* MaxIssued ids are issued from either start
IssueOrderId ==
    /\ IF next_session_counter < IdSpace
       THEN next_session_counter <= MaxIssued
       ELSE next_session_counter < IdSpace + MaxIssued
    /\ generate_order_id
    /\ UNCHANGED <<tgp_vars, txip_vars, task_vars>>

OrderIdNext == IssueOrderId

SpecOrderId == OrderIdInit /\ [][OrderIdNext]_vars

(***************************************************************************)
(* Properties of the escrow state machine.                                 *)
(***************************************************************************)
EscrowIndexes == 1..Len(escrows)

\* the escrow a call on order_id works on, as a set (empty when there is none)
EscrowOf(order_id) == {i \in EscrowIndexes : i = get_escrow(order_id)}

\* a call of one of the six transition operations on order_id
SellerAcceptOn(o) == \E txid \in AcceptTxids : seller_accept(o, txid)
SellerFulfillOn(o) == \E txid \in FulfillTxids : seller_fulfill(o, txid)
SellerClaimOn(o) == \E txid \in ClaimTxids : seller_claim(o, txid)
SellerRefundOn(o) == \E txid \in RefundTxids : seller_refund(o, txid)
BuyerWithdrawOn(o) == \E txid \in WithdrawTxids : buyer_withdraw(o, txid)

TransitionCallOn(o) ==
    \/ SellerAcceptOn(o)
    \/ SellerFulfillOn(o)
    \/ SellerClaimOn(o)
    \/ SellerRefundOn(o)
    \/ BuyerWithdrawOn(o)
    \/ timed_release(o)

\* C1: a call of seller_accept, seller_fulfill, seller_claim, seller_refund,
\* buyer_withdraw or timed_release that returns an error leaves every escrow and the
\* receipt list as they were before the call.
C1_FailedCallChangesNothing ==
    [][\A o \in OrderIdInputs :
          (TransitionCallOn(o) /\ IsErr(result'))
              => (escrows' = escrows /\ receipts' = receipts)]_vars

\* C2: in every reachable state each escrow has exactly one of seller_claim_txid and
\* seller_refund_txid set when its state is SellerClaimed or SellerRefunded, and
\* neither of them in every other state.
C2_ClaimXorRefundTxid ==
    \A i \in EscrowIndexes :
        LET e == escrows[i] IN
        IF e.state \in {"SellerClaimed", "SellerRefunded"}
        THEN IsSome(e.seller_claim_txid) # IsSome(e.seller_refund_txid)
        ELSE ~IsSome(e.seller_claim_txid) /\ ~IsSome(e.seller_refund_txid)

\* an escrow was refunded by a seller_refund that returned its amount
C2_Witness ==
    \E i \in EscrowIndexes :
        /\ escrows[i].state = "SellerRefunded"
        /\ IsSome(escrows[i].seller_refund_txid)
        /\ result = OkAmount(escrows[i].amount)

\* C3: an escrow is in SellerClaimed or SellerRefunded only after a seller_fulfill on
\* it has succeeded (seller_fulfill_txid is written by a successful seller_fulfill,
\* and by nothing else).
C3_SettledOnlyAfterFulfill ==
    \A i \in EscrowIndexes :
        escrows[i].state \in {"SellerClaimed", "SellerRefunded"}
            => IsSome(escrows[i].seller_fulfill_txid)

\* the transitions of the table of allowed transitions
TableTransitions ==
    { <<"BuyerCommitted", "SellerAccepted">>,
      <<"BuyerCommitted", "BuyerWithdrawn">>,
      <<"SellerAccepted", "SellerFulfilled">>,
      <<"SellerAccepted", "FulfillmentExpired">>,
      <<"FulfillmentExpired", "SellerFulfilled">>,
      <<"FulfillmentExpired", "BuyerWithdrawn">>,
      <<"SellerFulfilled", "SellerClaimed">>,
      <<"SellerFulfilled", "SellerRefunded">> }

\* settlement of an escrow that is in FulfillmentExpired
ExpiredSettlements ==
    { <<"FulfillmentExpired", "SellerClaimed">>,
      <<"FulfillmentExpired", "SellerRefunded">> }

StateChangesWithin(allowed) ==
    \A i \in EscrowIndexes :
        escrows'[i].state # escrows[i].state
            => <<escrows[i].state, escrows'[i].state>> \in allowed

C5_TerminalStateIsFinal ==
    [][\A i \in EscrowIndexes :
          is_terminal(escrows[i].state) => escrows'[i].state = escrows[i].state]_vars

\* a claim was just refused on an engine all of whose escrows are settled
C5_Witness ==
    /\ Len(escrows) > 0
    /\ \A i \in EscrowIndexes : is_terminal(escrows[i].state)
    /\ result = Err("seller_claim only valid after fulfillment")

\* the errors by which an operation refuses the state of the escrow
InvalidStateErrors ==
    { Err("seller_accept only valid from BuyerCommitted"),
      Err("seller_claim only valid after fulfillment"),
      Err("seller_refund only valid after fulfillment"),
      Err("buyer_withdraw not allowed in this state"),
      Err("timed_release only after fulfillment") }
    \cup { Err("seller_fulfill invalid in state " \o s) : s \in EscrowStates }

TimedReleaseDisabledError == Err("timed_release disabled for this profile")

IsTerminalOrder(o) == \E i \in EscrowOf(o) : is_terminal(escrows[i].state)

\* C6 as stated: every call of one of the six operations on a terminal escrow fails
\* with an invalid-state error.
C6_TerminalCallIsInvalidState ==
    [][\A o \in OrderIdInputs :
          (IsTerminalOrder(o) /\ TransitionCallOn(o))
              => result' \in InvalidStateErrors]_vars

\* C6: every call of one of the six operations on a terminal escrow fails: with an
\* invalid-state error, except that timed_release on an escrow whose profile does not
\* allow timed release fails with the timed-release-disabled error.
C6_TerminalCallFails ==
    [][\A o \in OrderIdInputs : \A i \in EscrowOf(o) :
          (is_terminal(escrows[i].state) /\ TransitionCallOn(o))
              => \/ result' \in InvalidStateErrors
                 \/ /\ timed_release(o)
                    /\ ~escrows[i].profile.allows_timed_release
                    /\ result' = TimedReleaseDisabledError]_vars

\* timed_release was just refused as disabled on an engine all of whose escrows are
\* settled and have a profile without timed release
C6_Witness ==
    /\ Len(escrows) > 0
    /\ \A i \in EscrowIndexes :
          is_terminal(escrows[i].state) /\ ~escrows[i].profile.allows_timed_release
    /\ result = TimedReleaseDisabledError

ReceiptsOf(order_id) == {k \in 1..Len(receipts) : receipts[k].session_id = order_id}

\* C7: the engine holds at most one receipt per order id.
C7_OneReceiptPerOrder ==
    \A o \in OrderIdInputs : Cardinality(ReceiptsOf(o)) <= 1

\* C8: after a seller_claim, seller_refund or timed_release on an order has
\* succeeded, get_receipt of the order is its finalized receipt: the settlement
\* timestamp is set and the claim txid (refund txid after a refund) is the escrow's.
C8_GetReceiptIsFinalized ==
    [][\A o \in OrderIdInputs : \A i \in EscrowOf(o) :
          (IsOk(result') /\ (SellerClaimOn(o) \/ SellerRefundOn(o) \/ timed_release(o)))
              => /\ IsSome(get_receipt(o)')
                 /\ get_receipt(o)'[1].settlement_iso # ""
                 /\ IF SellerRefundOn(o)
                    THEN get_receipt(o)'[1].seller_refund_txid
                             = escrows'[i].seller_refund_txid
                    ELSE get_receipt(o)'[1].seller_claim_txid
                             = escrows'[i].seller_claim_txid]_vars

\* the order has a receipt of a late fulfillment
FulfilledLate(o) == \E k \in ReceiptsOf(o) : receipts[k].late_fulfilled

\* C9: once seller_fulfill has succeeded late on an escrow, every buyer_withdraw on
\* it fails.
C9_NoWithdrawAfterLateFulfill ==
    [][\A o \in OrderIdInputs :
          (FulfilledLate(o) /\ BuyerWithdrawOn(o)) => IsErr(result')]_vars

\* C10: buyer_withdraw on a SellerAccepted escrow whose fulfillment deadline has
\* passed succeeds and moves the escrow to BuyerWithdrawn.
C10_WithdrawFromAcceptedAfterDeadline ==
    [][\A o \in OrderIdInputs : \A i \in EscrowOf(o) :
          (/\ escrows[i].state = "SellerAccepted"
           /\ IsLate(escrows[i])
           /\ BuyerWithdrawOn(o))
              => (IsOk(result') /\ escrows'[i].state = "BuyerWithdrawn")]_vars

\* the seller accepted the escrow, within the acceptance window
AcceptedInWindow(e) ==
    /\ IsSome(e.seller_accept_mono)
    /\ e.seller_accept_mono[1] <= e.acceptance_deadline_mono

\* C11 as stated: every escrow whose state is not BuyerCommitted has seller_accept_mono
\* set, with seller_accept_mono <= acceptance_deadline_mono.
C11_AcceptedUnlessCommitted ==
    \A i \in EscrowIndexes :
        escrows[i].state # "BuyerCommitted" => AcceptedInWindow(escrows[i])

\* C11: every escrow whose state is neither BuyerCommitted nor BuyerWithdrawn has
\* seller_accept_mono set, with seller_accept_mono <= acceptance_deadline_mono; a
\* BuyerWithdrawn escrow has that too, or has no seller_accept_mono and no
\* seller_accept_txid (it was withdrawn from BuyerCommitted).
C11_AcceptedUnlessCommittedOrWithdrawnUnaccepted ==
    \A i \in EscrowIndexes :
        escrows[i].state # "BuyerCommitted"
            => \/ AcceptedInWindow(escrows[i])
               \/ /\ escrows[i].state = "BuyerWithdrawn"
                  /\ escrows[i].seller_accept_mono = None
                  /\ escrows[i].seller_accept_txid = None

\* the buyer has just withdrawn an escrow that the seller had accepted in time
C11_Witness ==
    \E i \in EscrowIndexes :
        /\ escrows[i].state = "BuyerWithdrawn"
        /\ AcceptedInWindow(escrows[i])
        /\ result = OkAmount(escrows[i].amount)

\* an engine state with the claim txid of every escrow and every receipt left out
WithoutClaimTxid(es, rs) ==
    << [i \in 1..Len(es) |-> [es[i] EXCEPT !.seller_claim_txid = None]],
       [k \in 1..Len(rs) |-> [rs[k] EXCEPT !.seller_claim_txid = None]] >>

\* the escrows and receipts a successful seller_claim(order_id, txid) leaves
ClaimOutcome(order_id, txid) ==
    LET i == get_escrow(order_id)
        k == StubIndex(order_id)
        e2 == ClaimedEscrow(escrows[i], txid)
    IN  << [escrows EXCEPT ![i] = e2],
           [receipts EXCEPT ![k] = FinalizedReceipt(receipts[k], e2, FALSE)] >>

\* C12: a timed_release that succeeds leaves the escrows and the receipts as a
\* seller_claim made in its place leaves them, but for the seller_claim_txid value.
C12_TimedReleaseAsSellerClaim ==
    [][\A o \in OrderIdInputs :
          (timed_release(o) /\ IsOk(result'))
              => \A txid \in ClaimTxids :
                    ~IsBlank(txid)
                        => WithoutClaimTxid(escrows', receipts')
                             = WithoutClaimTxid(ClaimOutcome(o, txid)[1],
                                                ClaimOutcome(o, txid)[2])]_vars

\* C13: timed_release moves an escrow to SellerClaimed only if its profile allows
\* timed release, its state is SellerFulfilled or FulfillmentExpired, and a
\* fulfillment is recorded on it at least claim_window_secs ago.
C13_TimedReleaseOnlyAfterClaimWindow ==
    [][\A o \in OrderIdInputs : \A i \in EscrowOf(o) :
          (/\ timed_release(o)
           /\ escrows[i].state # "SellerClaimed"
           /\ escrows'[i].state = "SellerClaimed")
              => /\ escrows[i].profile.allows_timed_release
                 /\ escrows[i].state \in {"SellerFulfilled", "FulfillmentExpired"}
                 /\ IsSome(escrows[i].fulfillment_mono)
                 /\ now.mono - escrows[i].fulfillment_mono[1]
                        >= escrows[i].profile.timing.claim_window_secs]_vars

(***************************************************************************)
(* Properties of the TxIP handler.                                         *)
(***************************************************************************)
\* the provider's time now and at every later moment of the model
NowOrLater == {TimeTruth(current_mono + d, current_unix + d) : d \in 0..MaxMono}

\* the registry and the message cache of an outcome of the handler
RegistryOf(out) == <<out.sessions, out.message_cache>>

\* C14: from every reachable state of the session registry, for every envelope,
\* delivering the envelope and delivering it again, then or later, leaves the
\* registry and the message cache as delivering it once leaves them.
C14_SecondDeliveryChangesNothing ==
    \A envelope \in Envelopes, gen \in GeneratedMsgIds, later \in NowOrLater :
        LET once == handle_txip_message(sessions, message_cache, envelope, now, gen,
                                        config)
            twice == handle_txip_message(once.sessions, once.message_cache, envelope,
                                         later, gen, config)
        IN  RegistryOf(twice) = RegistryOf(once)

\* a delivery has just been answered as a duplicate, after the clock moved on since
\* the session was last active
C14_Witness ==
    /\ handler_path = "duplicate"
    /\ \E s \in DOMAIN sessions :
          /\ sessions[s].last_activity_mono < current_mono
          /\ response.body.msg_id \in message_cache[s]

\* C15: delivering again, then or later, a HELLO envelope that was answered with
\* WELCOME changes neither the registry nor the message cache and is answered with
\* a WELCOME of the same payload.
C15_HelloRedeliveryReturnsWelcome ==
    \A envelope \in Envelopes, gen \in GeneratedMsgIds, later \in NowOrLater :
        LET once == handle_txip_message(sessions, message_cache, envelope, now, gen,
                                        config)
            twice == handle_txip_message(once.sessions, once.message_cache, envelope,
                                         later, gen, config)
        IN  once.path = "hello"
                => /\ RegistryOf(twice) = RegistryOf(once)
                   /\ twice.response.body.kind = "welcome"
                   /\ twice.response.body.payload = once.response.body.payload

(***************************************************************************)
(* Properties of the TGP session.                                          *)
(***************************************************************************)
\* the session has a timeout deadline and the clock is past it
DeadlinePassed ==
    /\ session.timeout_at # None
    /\ current_timestamp > session.timeout_at[1]

\* C16: on a session in a non-terminal state whose timeout deadline has passed, a
\* transition call to any target state returns SessionTimeout and leaves the session
\* as it was.
C16_TimedOutTransitionRejected ==
    [][\A target \in TGPStates :
          (/\ ~TGPState_is_terminal(session.state)
           /\ DeadlinePassed
           /\ transition(target))
              => /\ session_result' = SessionTimeout(session.timeout_at[1])
                 /\ session' = session]_vars

\* a transition was just refused with SessionTimeout on a non-terminal session
C16_Witness ==
    /\ ~TGPState_is_terminal(session.state)
    /\ DeadlinePassed
    /\ session_result = SessionTimeout(session.timeout_at[1])

\* the transitions of the session protocol, but for those into Errored
SessionTable ==
    { <<"Idle", "QuerySent">>,
      <<"QuerySent", "OfferReceived">>,
      <<"OfferReceived", "AcceptSent">>,
      <<"AcceptSent", "Finalizing">>,
      <<"Finalizing", "Settled">> }

\* C17: on a session that has not timed out, transition(target) succeeds, and moves
\* the session to target, if and only if (current, target) is in the session table or
\* current is non-terminal and target is Errored.
C17_TransitionSucceedsIffAllowed ==
    [][\A target \in TGPStates :
          (~DeadlinePassed /\ transition(target))
              => /\ IsOk(session_result')
                     <=> \/ <<session.state, target>> \in SessionTable
                         \/ /\ ~TGPState_is_terminal(session.state)
                            /\ target = "Errored"
                 /\ IsOk(session_result') => session'.state = target
                 /\ ~IsOk(session_result') => session' = session]_vars

\* a transition into Errored has just succeeded at the moment the session was made
C17_Witness ==
    /\ session.state = "Errored"
    /\ session_result = OkUnit
    /\ session.updated_at = session.created_at

C19_ForceErrorAlwaysErrors ==
    [][force_error => (session'.state = "Errored" /\ session'.timeout_at = None)]_vars

\* force_error has just been called, after the clock moved on
C19_Witness ==
    /\ session.state = "Errored"
    /\ session_result = Unit
    /\ session.timeout_at = None
    /\ session.updated_at = current_timestamp
    /\ session.updated_at > session.created_at

\* C20: every transition call to another state on a session in Settled or Errored
\* returns TerminalState.
C20_TerminalTransitionIsTerminalState ==
    [][\A target \in TGPStates :
          (/\ TGPState_is_terminal(session.state)
           /\ target # session.state
           /\ transition(target))
              => session_result' = TerminalState(session.state)]_vars

\* the default timeout of each session state
DefaultTimeout ==
    [s \in TGPStates |->
        CASE s = "QuerySent" -> Some(30)
          [] s = "OfferReceived" -> Some(300)
          [] s = "AcceptSent" -> Some(60)
          [] s = "Finalizing" -> Some(600)
          [] OTHER -> None]

\* C21: after every successful transition into a state, the session's timeout_at is
\* updated_at plus the state's default timeout (QuerySent 30 s, OfferReceived 300 s,
\* AcceptSent 60 s, Finalizing 600 s) and is unset for Idle, Settled and Errored.
C21_TimeoutFollowsState ==
    [][\A target \in TGPStates :
          (transition(target) /\ IsOk(session_result'))
              => /\ session'.updated_at = current_timestamp
                 /\ session'.timeout_at =
                        IF DefaultTimeout[target] = None THEN None
                        ELSE Some(session'.updated_at + DefaultTimeout[target][1])]_vars

\* a transition into AcceptSent has just succeeded, after the clock moved on since
\* the session was made
C21_Witness ==
    /\ session.state = "AcceptSent"
    /\ session_result = OkUnit
    /\ session.updated_at > session.created_at
    /\ session.timeout_at = Some(session.updated_at + 60)

IsFinalized(r) == r.seller_claim_txid # None \/ r.seller_refund_txid # None

\* C24: once a receipt has been finalized (its claim or refund txid set), no later
\* engine operation changes any of its fields.
C24_FinalizedReceiptIsFrozen ==
    [][\A k \in 1..Len(receipts) :
          IsFinalized(receipts[k])
              => (Len(receipts') >= k /\ receipts'[k] = receipts[k])]_vars

\* a settlement operation has just been refused on an order whose receipt is
\* finalized
C24_Witness ==
    /\ \E k \in 1..Len(receipts) : IsFinalized(receipts[k])
    /\ result \in { Err("seller_claim only valid after fulfillment"),
                    Err("seller_refund only valid after fulfillment"),
                    Err("timed_release only after fulfillment") }

\* C25: every finalized receipt has fulfillment_mono <= settlement_mono, wherever
\* the advance_time calls fall between fulfillment and settlement.
C25_FulfillmentBeforeSettlement ==
    \A k \in 1..Len(receipts) :
        IsFinalized(receipts[k])
            => receipts[k].fulfillment_mono <= receipts[k].settlement_mono

\* a receipt finalized later than it was made, of a fulfillment later than the
\* commit
C25_Witness ==
    \E k \in 1..Len(receipts) :
        /\ IsFinalized(receipts[k])
        /\ receipts[k].fulfillment_mono < receipts[k].settlement_mono

\* the escrow of the order the receipt is of
EscrowOfReceipt(r) == escrows[get_escrow(r.session_id)]

SaturatingAdd(a, b) == IF AddOverflows(a, b) THEN U64Max ELSE a + b

\* C26: no engine operation panics or overflows on boundary inputs: whatever the
\* clock value, the advance amount, the block interval and the window lengths, no
\* call panics, the clock never runs backwards and the deadlines are the saturating
\* sums of their start and their window.
C26_NoPanicNoOverflow ==
    /\ ~IsPanic(result)
    /\ current_unix >= GenesisUnix
    /\ \A i \in 1..Len(escrows) :
          LET e == escrows[i] IN
          /\ e.acceptance_deadline_mono =
                 SaturatingAdd(e.buyer_commit_mono, e.profile.timing.acceptance_window_secs)
          /\ e.fulfillment_deadline_mono # None
                 => e.fulfillment_deadline_mono[1] =
                        SaturatingAdd(e.seller_accept_mono[1],
                                      e.profile.timing.fulfillment_window_secs)

\* C27: after any sequence of advance_time calls, current_block_height is
\* genesis_block + floor((current_unix - genesis_unix) / block_interval_secs),
\* however the elapsed time was split across the calls.
C27_BlockHeightFollowsClock ==
    (/\ ~IsPanic(result)
     /\ block_interval_secs > 0
     /\ current_unix >= GenesisUnix)
        => current_block_height
               = 1 + ((current_unix - GenesisUnix) \div block_interval_secs)

\* the ids that generate_order_id has issued when the counter stands at `counter`
IssuedBefore(counter) == {OrderIdOf(c) : c \in 1..(counter - 1)}

\* C28: all order ids issued on one engine are pairwise distinct: none is an id
\* issued before.
C28_OrderIdsDistinct ==
    [][generate_order_id
          => OrderIdOf(next_session_counter) \notin IssuedBefore(next_session_counter)]_vars

\* C29: buyer_commit with amount = 0 is rejected and creates no escrow.
C29_ZeroAmountCommitRejected ==
    [][\A profile \in BoundaryProfiles, chain \in BuyerChainIds, txid \in CommitTxids :
          buyer_commit("buyer", "seller", 0, profile, chain, txid)
              => (IsErr(result') /\ escrows' = escrows)]_vars

\* C30: the seller_claim_txid that a successful timed_release records on the escrow
\* and on its receipt is "auto_claim_<mono>", <mono> being the engine's monotonic
\* time at the release.
C30_AutoClaimTxidFormat ==
    [][\A o \in OrderIdInputs : \A i \in EscrowOf(o) :
          (timed_release(o) /\ IsOk(result'))
              => /\ escrows'[i].seller_claim_txid
                        = Some("auto_claim_" \o ToString(current_mono))
                 /\ get_receipt(o)'[1].seller_claim_txid
                        = Some("auto_claim_" \o ToString(current_mono))]_vars

(***************************************************************************)
(* update_state.                                                           *)
(***************************************************************************)
\* the fulfillment deadline of escrow i lies strictly behind the engine's clock
FulfillmentOverdue(i) ==
    /\ escrows[i].state = "SellerAccepted"
    /\ escrows[i].fulfillment_deadline_mono # None
    /\ current_mono > escrows[i].fulfillment_deadline_mono[1]

AcceptSucceeds(o) ==
    \E txid \in AcceptTxids :
        ~IsBlank(txid) /\ ENABLED (seller_accept(o, txid) /\ IsOk(result'))

\* buyer_withdraw can return Ok on order o
WithdrawSucceeds(o) ==
    \E txid \in WithdrawTxids : ENABLED (buyer_withdraw(o, txid) /\ IsOk(result'))

\* C35: for an escrow in BuyerCommitted, at every value of the clock exactly one of
\* seller_accept (with a non-empty txid) and buyer_withdraw succeeds: accept up to
\* and including acceptance_deadline_mono, withdraw strictly after it.
C35_AcceptXorWithdraw ==
    \A o \in OrderIdInputs : \A i \in EscrowOf(o) :
        escrows[i].state = "BuyerCommitted"
            => /\ AcceptSucceeds(o) <=> current_mono <= escrows[i].acceptance_deadline_mono
               /\ WithdrawSucceeds(o) <=> current_mono > escrows[i].acceptance_deadline_mono

\* an escrow the buyer withdrew from BuyerCommitted, after the acceptance deadline
C35_Witness ==
    /\ IsOk(result)
    /\ \E i \in EscrowIndexes :
          /\ escrows[i].state = "BuyerWithdrawn"
          /\ escrows[i].seller_accept_mono = None
          /\ current_mono > escrows[i].acceptance_deadline_mono

(***************************************************************************)
(* Refused session transitions.                                            *)
(***************************************************************************)
\* C40: a transition call that returns an error (SessionTimeout, AlreadyInState,
\* TerminalState or InvalidTransition) leaves the session's state, updated_at and
\* timeout_at as they were.
C40_RefusedTransitionChangesNothing ==
    [][\A target \in TGPStates :
          (transition(target) /\ IsErr(session_result'))
              => /\ session'.state = session.state
                 /\ session'.updated_at = session.updated_at
                 /\ session'.timeout_at = session.timeout_at]_vars

\* a transition outside the table has just been refused, later than the session's
\* last update
C40_Witness ==
    /\ \E target \in TGPStates : session_result = InvalidTransition(session.state, target)
    /\ current_timestamp > session.updated_at
    /\ session.timeout_at # None

(***************************************************************************)
(* Properties of the HELLO negotiation.                                    *)
(***************************************************************************)
\* the chain ids clients name in their HELLO
ChainsNamed == UNION { {h.supported_chains[k] : k \in 1..Len(h.supported_chains)} : h \in HelloPayloads }

\* the supported sets of a controller that does not support every chain named
ControllerChainSets == (SUBSET ChainsNamed) \ {ChainsNamed}

\* the client's chains that the controller supports, in the client's order
ChainIntersection(chains, supported) == SelectSeq(chains, LAMBDA c : c \in supported)

\* the envelopes that carry a HELLO and pass validation
HelloEnvelopes == {e \in WellFormedEnvelopes : e.payload.control_type = "Hello"}

\* C32: the chain list stored for a session at HELLO is the intersection of the
\* client's supported chains with the controller's supported set, and a HELLO whose
\* intersection is empty fails and creates no session; stated for some supported set
\* short of every chain the clients name.
C32_StoredChainsAreIntersection ==
    \E supported \in ControllerChainSets :
        \A envelope \in HelloEnvelopes, gen \in GeneratedMsgIds :
            LET out == handle_txip_message(sessions, message_cache, envelope, now, gen,
                                           config)
                common == ChainIntersection(envelope.payload.hello[1].supported_chains,
                                            supported)
            IN  /\ out.path = "hello"
                       => out.sessions[envelope.session_id].negotiated_chains = common
                /\ (common = <<>> /\ out.path # "duplicate")
                       => (out.path = "hello_failed" /\ out.sessions = sessions)

(***************************************************************************)
(* Properties of the sweep.                                                *)
(***************************************************************************)
\* the seconds for which session s has been idle
IdleFor(s) == now.unix - sessions[s].last_activity_unix

\* a second session, registered at some earlier time beside the one the envelopes name
OtherSessionId == "sess-789"

\* C33: cleanup_expired removes a session if and only if now - last_activity >
\* session_timeout at the sweep, and leaves every other session as it was; a
\* session refreshed at intervals of at most session_timeout is never removed:
\* touched now, it survives every sweep up to session_timeout seconds later.  The
\* last conjunct sweeps the registry with a second session beside the first.
C33_SweepRemovesExactlyExpired ==
    [][/\ Sweep
          => /\ DOMAIN sessions' \subseteq DOMAIN sessions
             /\ \A s \in DOMAIN sessions :
                   IF IdleFor(s) > config.session_timeout_seconds
                   THEN s \notin DOMAIN sessions'
                   ELSE s \in DOMAIN sessions' /\ sessions'[s] = sessions[s]
       /\ \A s \in DOMAIN sessions, later \in NowOrLater :
             LET touched == touch_session(sessions, s, now).sessions
                 swept == cleanup_expired(touched, message_cache, later, config)
             IN  later.unix - now.unix <= config.session_timeout_seconds
                     => (s \in DOMAIN swept.sessions /\ swept.sessions[s] = touched[s])
       /\ \A h \in HelloPayloads, t \in 0..current_mono :
             LET other == handle_hello(sessions, message_cache, h, OtherSessionId,
                                       "SellerAgent", TimeTruth(t, GenesisUnix + t))
                 swept == cleanup_expired(other.sessions, other.message_cache, now, config)
             IN  \A s \in DOMAIN other.sessions :
                     IF now.unix - other.sessions[s].last_activity_unix
                            > config.session_timeout_seconds
                     THEN s \notin DOMAIN swept.sessions
                     ELSE /\ s \in DOMAIN swept.sessions
                          /\ swept.sessions[s] = other.sessions[s]]_vars

\* a sweep has removed the session that the last delivery, a HELLO, had created
C33_Witness ==
    /\ handler_path = "hello"
    /\ sessions = EmptyMap
    /\ message_cache = EmptyMap
    /\ current_mono > 0

(***************************************************************************)
(* Envelopes that fail validation.                                         *)
(***************************************************************************)
\* an envelope of an unsupported version, without msg_id or session_id, or whose
\* payload variant disagrees with its message_type
FailsValidation(envelope) ==
    \/ envelope.txip_version # "0.2"
    \/ envelope.msg_id = ""
    \/ envelope.session_id = ""
    \/ envelope.message_type # envelope.payload.variant

\* C34: an envelope that fails validation is answered with an ERROR envelope and
\* changes neither the registry nor the message cache, so that the session it names
\* stays registered.
C34_InvalidEnvelopeChangesNothing ==
    \A envelope \in Envelopes, gen \in GeneratedMsgIds :
        LET out == handle_txip_message(sessions, message_cache, envelope, now, gen, config)
        IN  FailsValidation(envelope)
                => /\ out.response.body.kind = "error"
                   /\ out.sessions = sessions
                   /\ out.message_cache = message_cache
                   /\ envelope.session_id \in DOMAIN sessions
                          => envelope.session_id \in DOMAIN out.sessions

\* an envelope naming a registered session has just been refused as invalid
C34_Witness ==
    /\ handler_path = "invalid"
    /\ response.body.kind = "error"
    /\ response.body.session_id \in DOMAIN sessions

(***************************************************************************)
(* The message ids a session remembers.                                    *)
(***************************************************************************)
\* C37: while a session stays registered, every msg_id recorded for it keeps being
\* reported as a duplicate, also across a repeated HELLO on the same session_id.
C37_RecordedMsgIdStaysDuplicate ==
    [][\A s \in DOMAIN sessions \cap DOMAIN sessions', m \in MsgIds :
          is_duplicate_message(message_cache, s, m)
              => is_duplicate_message(message_cache', s, m)]_vars

(***************************************************************************)
(* Properties of the handler under concurrent requests.                    *)
(***************************************************************************)
\* task t has handled its envelope to the end: session touched or created, msg_id
\* recorded, message routed
Processed(t) ==
    /\ tasks[t].pc = "respond"
    /\ tasks[t].path \in {"hello", "heartbeat", "tgp"}

\* C36: under any interleaving of concurrent deliveries to the same session, a
\* given msg_id is processed at most once and every other delivery of it takes the
\* duplicate path: no two deliveries in flight at once of one msg_id to one session
\* are both processed.
C36_MsgIdProcessedOnce ==
    \A t1 \in Tasks : \A t2 \in Tasks \ {t1} :
        (Processed(t1) /\ Processed(t2))
            => \/ tasks[t1].envelope[1].msg_id # tasks[t2].envelope[1].msg_id
               \/ tasks[t1].envelope[1].session_id # tasks[t2].envelope[1].session_id

\* task t waits for a lock that another task holds
Blocked(t) ==
    /\ tasks[t].pc \notin {"idle", "respond"}
    /\ ~HelloRefused(t)
    /\ lock_holder[NextLock(t)] # Unlocked

\* C38: no interleaving of concurrent SessionManager calls deadlocks on the locks of
\* sessions and message_cache: there is no set of tasks each of which waits for a
\* lock held by a task of the set.
C38_NoDeadlock ==
    \A waiting \in (SUBSET Tasks) \ {{}} :
        ~ \A t \in waiting : Blocked(t) /\ lock_holder[NextLock(t)] \in waiting

\* a call waits for the registry while handle_hello, close_session or
\* cleanup_expired holds it and has yet to lock the cache
C38_Witness ==
    \E t \in Tasks : \E holder \in Tasks \ {t} :
        /\ Blocked(t)
        /\ lock_holder[NextLock(t)] = holder
        /\ tasks[holder].held = 1

\* C39: under any interleaving of handler calls the message cache holds an entry
\* only for registered session ids: once CLOSE or a sweep has removed a session, no
\* msg_id set for it remains or reappears until a new HELLO.  Stated for the moments
\* at which no call holds a lock.
C39_CacheOnlyForRegisteredSessions ==
    (\A l \in Locks : lock_holder[l] = Unlocked)
        => DOMAIN message_cache \subseteq DOMAIN sessions
====
